---- MODULE Spec2Model ----
(***************************************************************************)
(* A model of nltk/translate/nist_score.py: corpus_nist and                *)
(* nist_length_penalty.                                                    *)
(*                                                                         *)
(* Numbers.  The score is built from base-2 logarithms of ratios of        *)
(* counts.  A sum of such logarithms is the logarithm of a product, so a   *)
(* numerator is kept as the reduced fraction <<P, R>> standing for         *)
(* log2(P / R); a precision is a numerator divided by an integer           *)
(* denominator.  Comparisons are decided exactly on the integers.  The     *)
(* model is over the reals: floating-point rounding is not modelled.       *)
(***************************************************************************)
EXTENDS Integers, Sequences, FiniteSets, TLC

\* Bounds of the model.  The size of an input is the number of cells of its
\* nested lists: one per token, one per sentence, one per reference set.
NumTokens == 2
MaxSize == 8
MaxN == 2
MaxArg == 6

Tokens == 1..NumTokens

\* the sentences of size s: s - 1 tokens
SentencesOfSize(s) == [1..(s - 1) -> Tokens]

\* the lists of sentences of total size t
RECURSIVE SentenceLists(_)
SentenceLists(t) ==
    IF t = 0 THEN {<<>>}
    ELSE UNION {{<<x>> \o rest : x \in SentencesOfSize(a),
                                 rest \in SentenceLists(t - a)} : a \in 1..t}

\* the lists of reference sets of total size t
RECURSIVE ReferenceCorpora(_)
ReferenceCorpora(t) ==
    IF t = 0 THEN {<<>>}
    ELSE UNION {{<<x>> \o rest : x \in SentenceLists(a - 1),
                                 rest \in ReferenceCorpora(t - a)} : a \in 1..t}

\* the arguments of a call, by size
HypothesesOfSize == [t \in 0..MaxSize |-> SentenceLists(t)]

ReferencesOfSize == [t \in 0..MaxSize |-> ReferenceCorpora(t)]

VARIABLES
    list_of_references,   \* argument: one reference set per item
    hypotheses,           \* argument: one hypothesis per item
    n,                    \* argument: highest n-gram order
    pc,                   \* position in corpus_nist
    err,                  \* the exception raised, "none" while there is none
    ngram_freq,           \* Counter: n-gram -> count
    total_reference_words,
    information_weights,  \* dict: n-gram -> weight
    nist_precision_numerator_per_ngram,    \* Counter: order -> summed numerator
    nist_precision_denominator_per_ngram,  \* Counter: order -> summed denominator
    l_ref,
    l_sys,
    i,                    \* loop variable of the order loops
    item,                 \* index of the corpus item the loops are at
    nist_score_per_ref,   \* list of 4-tuples of the last item processed
    selected,             \* (precision, numerator, denominator, ref_len) of line 135
    nist_precision,       \* the per-order precisions summed at line 141
    penalty,              \* value returned by nist_length_penalty
    result,               \* value returned by corpus_nist
    sentence_nist_args,   \* the arguments of sentence_nist, None without that call
    \* nltk/sem/lfg.py
    fstruct,              \* an FStructure: the dict part, stored key -> value
    safeappend_args,      \* the arguments of the last safeappend call
    \* nltk/misc/wordfinder.py: the arguments and locals of wordfinder
    words,
    rows,
    cols,
    attempts,
    alph,
    grid,                 \* row -> column -> letter, "" for a blank cell
    used,
    word_index,           \* position of the loop of line 70 in words
    word,
    save,
    attempt,
    wordfinder_pc,        \* position in wordfinder
    \* nltk/stem/cistem.py: a Cistem object and one call of segment
    case_insensitive,     \* self._case_insensitive
    segment_arg,          \* the word segment was called with
    stem_word,            \* the local word of segment and _segment_inner
    upper,
    word_copy,
    rest_length,
    segment_result,       \* the pair returned
    cistem_pc,            \* position in segment
    \* nltk/parse/evaluate.py: a DependencyEvaluator and one call of eval
    parsed_sents,         \* self._parsed_sents: per sentence the nodes by address
    gold_sents,           \* self._gold_sents
    sent_index,           \* i + 1 of the loop of line 105
    node_index,           \* position in parsed_nodes.items()
    corr,
    corrL,
    eval_total,           \* total
    eval_result,          \* the pair returned or the exception raised
    eval_pc               \* position in eval

\* the variables of nltk/sem/lfg.py
lfg_vars == <<fstruct, safeappend_args>>

\* the variables of nltk/misc/wordfinder.py
wordfinder_vars ==
    <<words, rows, cols, attempts, alph, grid, used, word_index, word, save,
      attempt, wordfinder_pc>>

\* the variables of nltk/stem/cistem.py
cistem_vars ==
    <<case_insensitive, segment_arg, stem_word, upper, word_copy, rest_length,
      segment_result, cistem_pc>>

\* the variables of nltk/parse/evaluate.py
evaluate_vars ==
    <<parsed_sents, gold_sents, sent_index, node_index, corr, corrL, eval_total,
      eval_result, eval_pc>>

\* the variables of the other modules
outside_nist_score == <<lfg_vars, wordfinder_vars, cistem_vars, evaluate_vars>>

vars == <<list_of_references, hypotheses, n, pc, err, ngram_freq,
          total_reference_words, information_weights,
          nist_precision_numerator_per_ngram,
          nist_precision_denominator_per_ngram, l_ref, l_sys, i, item,
          nist_score_per_ref, selected, nist_precision, penalty, result,
          sentence_nist_args, outside_nist_score>>

None == [kind |-> "None"]

\* no call of sentence_nist or corpus_nist is under way
NoNistCall ==
    /\ list_of_references = None
    /\ hypotheses = None
    /\ n = None
    /\ pc = None
    /\ err = None
    /\ ngram_freq = None
    /\ total_reference_words = None
    /\ information_weights = None
    /\ nist_precision_numerator_per_ngram = None
    /\ nist_precision_denominator_per_ngram = None
    /\ l_ref = None
    /\ l_sys = None
    /\ i = None
    /\ item = None
    /\ nist_score_per_ref = None
    /\ selected = None
    /\ nist_precision = None
    /\ penalty = None
    /\ result = None
    /\ sentence_nist_args = None

\* the variables of nltk/translate/nist_score.py
nist_score_vars ==
    <<list_of_references, hypotheses, n, pc, err, ngram_freq,
      total_reference_words, information_weights,
      nist_precision_numerator_per_ngram,
      nist_precision_denominator_per_ngram, l_ref, l_sys, i, item,
      nist_score_per_ref, selected, nist_precision, penalty, result,
      sentence_nist_args>>

\* no object of nltk/sem/lfg.py exists
NoFStructure == fstruct = None /\ safeappend_args = None

\* no call of wordfinder is under way
NoWordfinderCall ==
    /\ words = None
    /\ rows = None
    /\ cols = None
    /\ attempts = None
    /\ alph = None
    /\ grid = None
    /\ used = None
    /\ word_index = None
    /\ word = None
    /\ save = None
    /\ attempt = None
    /\ wordfinder_pc = None

\* no Cistem object exists
NoCistem ==
    /\ case_insensitive = None
    /\ segment_arg = None
    /\ stem_word = None
    /\ upper = None
    /\ word_copy = None
    /\ rest_length = None
    /\ segment_result = None
    /\ cistem_pc = None

\* no DependencyEvaluator exists
NoEvaluator ==
    /\ parsed_sents = None
    /\ gold_sents = None
    /\ sent_index = None
    /\ node_index = None
    /\ corr = None
    /\ corrL = None
    /\ eval_total = None
    /\ eval_result = None
    /\ eval_pc = None

\* the variables of a module, and the other modules at rest
outside_lfg == <<nist_score_vars, wordfinder_vars, cistem_vars, evaluate_vars>>

outside_wordfinder == <<nist_score_vars, lfg_vars, cistem_vars, evaluate_vars>>

outside_cistem == <<nist_score_vars, lfg_vars, wordfinder_vars, evaluate_vars>>

outside_evaluate == <<nist_score_vars, lfg_vars, wordfinder_vars, cistem_vars>>

OutsideNistScoreIdle == NoFStructure /\ NoWordfinderCall /\ NoCistem /\ NoEvaluator

OutsideLfgIdle == NoNistCall /\ NoWordfinderCall /\ NoCistem /\ NoEvaluator

OutsideWordfinderIdle == NoNistCall /\ NoFStructure /\ NoCistem /\ NoEvaluator

OutsideCistemIdle == NoNistCall /\ NoFStructure /\ NoWordfinderCall /\ NoEvaluator

OutsideEvaluateIdle == NoNistCall /\ NoFStructure /\ NoWordfinderCall /\ NoCistem

(***************************************************************************)
(* Arithmetic on logarithms of fractions.                                  *)
(***************************************************************************)
RECURSIVE Gcd(_, _)
Gcd(a, b) == IF b = 0 THEN a ELSE Gcd(b, a % b)

RECURSIVE Pow(_, _)
Pow(b, e) == IF e = 0 THEN 1 ELSE b * Pow(b, e - 1)

\* log2(p[1] / p[2]) with the fraction reduced
LogNorm(p) == LET g == Gcd(p[1], p[2]) IN <<p[1] \div g, p[2] \div g>>

\* the integer 0 that sum() starts from: log2(1 / 1)
LogZero == <<1, 1>>

\* x + y
LogAdd(x, y) == LogNorm(<<x[1] * y[1], x[2] * y[2]>>)

\* x * c for a count c
LogScale(x, c) == LogNorm(<<Pow(x[1], c), Pow(x[2], c)>>)

\* x < y
LogLess(x, y) == x[1] * y[2] < y[1] * x[2]

\* -1, 0 or 1
LogSign(x) == IF x[1] > x[2] THEN 1 ELSE IF x[1] < x[2] THEN -1 ELSE 0

(***************************************************************************)
(* A quotient numerator / denominator: [num |-> <<P, R>>, den |-> d] is    *)
(* log2(P / R) / d, d > 0.                                                 *)
(***************************************************************************)
Quot(x, d) == [num |-> x, den |-> d]

QuotZero == Quot(LogZero, 1)

\* x < y: log2(a)/d < log2(b)/e  iff  a^e < b^d
QuotLess(x, y) ==
    IF x.den = y.den THEN LogLess(x.num, y.num)
    ELSE Pow(x.num[1], y.den) * Pow(y.num[2], x.den)
            < Pow(y.num[1], x.den) * Pow(x.num[2], y.den)

QuotEq(x, y) == ~QuotLess(x, y) /\ ~QuotLess(y, x)

(***************************************************************************)
(* nltk.util.ngrams and collections.Counter                                *)
(***************************************************************************)
\* ngrams(sequence, order): the sliding windows, none when the sequence is short
ngrams(sequence, order) ==
    [j \in 1..(Len(sequence) - order + 1) |-> SubSeq(sequence, j, j + order - 1)]

\* Counter(): the empty mapping
EmptyCounter == <<>>

CounterGet(c, key) == IF key \in DOMAIN c THEN c[key] ELSE 0

\* c[key] += 1
CounterIncr(c, key) ==
    IF key \in DOMAIN c THEN [c EXCEPT ![key] = @ + 1] ELSE c @@ (key :> 1)

\* c.update(iterable)
RECURSIVE CounterUpdate(_, _)
CounterUpdate(c, elems) ==
    IF elems = <<>> THEN c
    ELSE CounterUpdate(CounterIncr(c, Head(elems)), Tail(elems))

\* Counter(iterable)
CounterOf(elems) == CounterUpdate(EmptyCounter, elems)

\* sum(c.values())
RECURSIVE SumValues(_)
SumValues(c) ==
    IF DOMAIN c = {} THEN 0
    ELSE LET key == CHOOSE x \in DOMAIN c : TRUE
         IN c[key] + SumValues([x \in DOMAIN c \ {key} |-> c[x]])

IntMin(a, b) == IF a < b THEN a ELSE b

\* the count of the first Counter at the keys of both
CounterAndUnclipped(a, b) ==
    [key \in {x \in DOMAIN a \cap DOMAIN b : a[x] > 0 /\ b[x] > 0} |-> a[key]]

\* a & b: the minimum of the counts, only where it is positive
CounterAnd(a, b) ==
    [key \in {x \in DOMAIN a \cap DOMAIN b : IntMin(a[x], b[x]) > 0}
        |-> IntMin(a[key], b[key])]

(***************************************************************************)
(* corpus_nist: the frequency table and the information weights            *)
(***************************************************************************)
\* sum(len(ref) for refs in list_of_references for ref in refs)
RECURSIVE SumLens(_)
SumLens(sentences) ==
    IF sentences = <<>> THEN 0 ELSE Len(Head(sentences)) + SumLens(Tail(sentences))

RECURSIVE TotalWords(_)
TotalWords(corpus) ==
    IF corpus = <<>> THEN 0 ELSE SumLens(Head(corpus)) + TotalWords(Tail(corpus))

\* only the n-grams of the highest order counted
CountOrdersTopOnly(c, reference, order, top) ==
    IF order > top THEN c ELSE CounterUpdate(c, ngrams(reference, top))

\* for i in range(order, top + 1): c.update(ngrams(reference, i))
RECURSIVE CountOrders(_, _, _, _)
CountOrders(c, reference, order, top) ==
    IF order > top THEN c
    ELSE CountOrders(CounterUpdate(c, ngrams(reference, order)), reference,
                     order + 1, top)

\* a reference that comes again later in the set counted once
RECURSIVE CountReferencesOnce(_, _, _)
CountReferencesOnce(c, references, top) ==
    IF references = <<>> THEN c
    ELSE CountReferencesOnce(
             IF \E r \in 1..Len(Tail(references)) : Tail(references)[r] = Head(references)
             THEN c ELSE CountOrders(c, Head(references), 1, top),
             Tail(references), top)

\* for reference in references: count its n-grams of the orders 1..top
RECURSIVE CountReferences(_, _, _)
CountReferences(c, references, top) ==
    IF references = <<>> THEN c
    ELSE CountReferences(CountOrders(c, Head(references), 1, top),
                         Tail(references), top)

\* ngram[:-1]
Prefix(ngram) == SubSeq(ngram, 1, Len(ngram) - 1)

\* the ratio upside down: count(w) / count(prefix(w))
InformationWeightInverted(freq, total, ngram) ==
    LogNorm(IF Prefix(ngram) \in DOMAIN freq
            THEN <<freq[ngram], freq[Prefix(ngram)]>>
            ELSE <<freq[ngram], total>>)

\* the word total taken as the numerator at every order
InformationWeightOverTotal(freq, total, ngram) ==
    LogNorm(<<total, freq[ngram]>>)

\* the argument of math.log(..., 2) for one n-gram
InformationWeight(freq, total, ngram) ==
    LogNorm(IF Prefix(ngram) \in DOMAIN freq
            THEN <<freq[Prefix(ngram)], freq[ngram]>>
            ELSE <<total, freq[ngram]>>)

\* weights for the unigrams alone
InformationWeightsOfUnigrams(freq, total) ==
    [ngram \in {x \in DOMAIN freq : Len(x) = 1} |-> LogNorm(<<total, freq[ngram]>>)]

InformationWeights(freq, total) ==
    [ngram \in DOMAIN freq |-> InformationWeight(freq, total, ngram)]

(***************************************************************************)
(* corpus_nist: one reference of one item at one order                     *)
(***************************************************************************)
NgramCounter(sentence, order) ==
    IF Len(sentence) >= order THEN CounterOf(ngrams(sentence, order))
    ELSE EmptyCounter

\* information_weights[ng] raises KeyError for an n-gram without a weight
MissingWeight(hypothesis, reference, order, weights) ==
    \E ng \in DOMAIN CounterAnd(NgramCounter(hypothesis, order),
                                NgramCounter(reference, order)) :
        ng \notin DOMAIN weights

\* sum(information_weights[ng] * count for ng, count in overlaps.items())
RECURSIVE WeightedSum(_, _)
WeightedSum(overlaps, weights) ==
    IF DOMAIN overlaps = {} THEN LogZero
    ELSE LET ng == CHOOSE x \in DOMAIN overlaps : TRUE
         IN LogAdd(LogScale(weights[ng], overlaps[ng]),
                   WeightedSum([x \in DOMAIN overlaps \ {ng} |-> overlaps[x]],
                               weights))

\* the tuple appended to nist_score_per_ref
ScoreForRef(hypothesis, reference, order, weights) ==
    LET hyp_ngrams_i == NgramCounter(hypothesis, order)
        ref_ngrams_i == NgramCounter(reference, order)
        ngram_overlaps == CounterAnd(hyp_ngrams_i, ref_ngrams_i)
        numerator == WeightedSum(ngram_overlaps, weights)
        denominator == SumValues(hyp_ngrams_i)
    IN [precision |-> IF denominator = 0 THEN QuotZero
                      ELSE Quot(numerator, denominator),
        numerator |-> numerator,
        denominator |-> denominator,
        ref_len |-> Len(reference)]

ScoresPerRef(hypothesis, references, order, weights) ==
    [r \in 1..Len(references) |->
        ScoreForRef(hypothesis, references[r], order, weights)]

\* only the precision compared
TupleGreaterPrecisionOnly(a, b) == QuotLess(b.precision, a.precision)

\* the reference length left out of the comparison
TupleGreaterWithoutRefLen(a, b) ==
    IF ~QuotEq(a.precision, b.precision) THEN QuotLess(b.precision, a.precision)
    ELSE IF a.numerator # b.numerator THEN LogLess(b.numerator, a.numerator)
    ELSE a.denominator > b.denominator

\* a > b on the 4-tuples: the first field that differs decides
TupleGreater(a, b) ==
    IF ~QuotEq(a.precision, b.precision) THEN QuotLess(b.precision, a.precision)
    ELSE IF a.numerator # b.numerator THEN LogLess(b.numerator, a.numerator)
    ELSE IF a.denominator # b.denominator THEN a.denominator > b.denominator
    ELSE a.ref_len > b.ref_len

\* max(list): the first element no later element is greater than
RECURSIVE MaxFrom(_, _)
MaxFrom(best, rest) ==
    IF rest = <<>> THEN best
    ELSE MaxFrom(IF TupleGreater(Head(rest), best) THEN Head(rest) ELSE best,
                 Tail(rest))

PyMax(list) == MaxFrom(Head(list), Tail(list))

\* counter[key] += x, on a Counter of summed numerators
NumeratorAdd(c, key, x) ==
    IF key \in DOMAIN c THEN [c EXCEPT ![key] = LogAdd(@, x)]
    ELSE c @@ (key :> LogAdd(LogZero, x))

\* counter[key] += x, on a Counter of integers
CounterAdd(c, key, x) ==
    IF key \in DOMAIN c THEN [c EXCEPT ![key] = @ + x] ELSE c @@ (key :> x)

(***************************************************************************)
(* nist_length_penalty.  A float is the fraction <<p, q>>, q > 0, reduced. *)
(***************************************************************************)
Abs(x) == IF x < 0 THEN -x ELSE x

\* p / q, q # 0
Rat(p, q) ==
    LET g == Gcd(Abs(p), Abs(q))
    IN IF q < 0 THEN <<(-p) \div g, (-q) \div g>> ELSE <<p \div g, q \div g>>

RatLess(x, y) == x[1] * y[2] < y[1] * x[2]

\* min(a, b) and max(a, b) of Python: the first argument wins a tie
PyMin2(a, b) == IF RatLess(b, a) THEN b ELSE a

PyMax2(a, b) == IF RatLess(a, b) THEN b ELSE a

Float(x) == [kind |-> "float", val |-> x]

\* math.exp(beta * math.log(ratio) ** 2), beta = log(score_x) / log(ratio_x) ** 2
Smooth(ratio, ratio_x, score_x) ==
    [kind |-> "smooth", ratio |-> ratio, ratio_x |-> ratio_x, score_x |-> score_x]

Raised(exception) == [kind |-> "raised", exception |-> exception]

\* the value of sum(...) over the terms, term by term
Sum(terms) == [kind |-> "sum", terms |-> terms]

\* min(ratio, 1.0) left out
nist_length_penalty_unclamped(ref_len, hyp_len) ==
    IF ref_len = 0 THEN Raised("ZeroDivisionError")
    ELSE LET ratio == Rat(hyp_len, ref_len)
         IN IF RatLess(<<0, 1>>, ratio) /\ RatLess(ratio, <<1, 1>>)
            THEN Smooth(ratio, <<3, 2>>, <<1, 2>>)
            ELSE Float(PyMax2(ratio, <<0, 1>>))

\* a zero reference length answered with 0.0
nist_length_penalty_guarded(ref_len, hyp_len) ==
    IF ref_len = 0 THEN Float(<<0, 1>>)
    ELSE LET ratio == Rat(hyp_len, ref_len)
         IN IF RatLess(<<0, 1>>, ratio) /\ RatLess(ratio, <<1, 1>>)
            THEN Smooth(ratio, <<3, 2>>, <<1, 2>>)
            ELSE Float(PyMax2(PyMin2(ratio, <<1, 1>>), <<0, 1>>))

nist_length_penalty(ref_len, hyp_len) ==
    IF ref_len = 0 THEN Raised("ZeroDivisionError")
    ELSE LET ratio == Rat(hyp_len, ref_len)
         IN IF RatLess(<<0, 1>>, ratio) /\ RatLess(ratio, <<1, 1>>)
            THEN Smooth(ratio, <<3, 2>>, <<1, 2>>)
            ELSE Float(PyMax2(PyMin2(ratio, <<1, 1>>), <<0, 1>>))

(***************************************************************************)
(* corpus_nist, step by step                                               *)
(***************************************************************************)
Init ==
    /\ \E a \in 0..MaxSize : \E b \in 0..(MaxSize - a) :
          /\ list_of_references \in ReferencesOfSize[a]
          /\ hypotheses \in HypothesesOfSize[b]
    /\ n \in 1..MaxN
    /\ pc = "start"
    /\ err = "none"
    /\ ngram_freq = None
    /\ total_reference_words = None
    /\ information_weights = None
    /\ nist_precision_numerator_per_ngram = None
    /\ nist_precision_denominator_per_ngram = None
    /\ l_ref = None
    /\ l_sys = None
    /\ i = None
    /\ item = None
    /\ nist_score_per_ref = None
    /\ selected = None
    /\ nist_precision = None
    /\ penalty = None
    /\ result = None
    /\ sentence_nist_args = None
    /\ OutsideNistScoreIdle

\* the assertion left out, as under python -O
CheckLengthsNoAssert ==
    /\ pc = "start"
    /\ err = "none"
    /\ pc' = "count"
    /\ ngram_freq' = EmptyCounter
    /\ total_reference_words' = TotalWords(list_of_references)
    /\ item' = 1
    /\ UNCHANGED <<list_of_references, hypotheses, n, err, information_weights,
                   nist_precision_numerator_per_ngram,
                   nist_precision_denominator_per_ngram, l_ref, l_sys, i,
                   nist_score_per_ref, selected, nist_precision, penalty, result>>
    /\ UNCHANGED <<sentence_nist_args, outside_nist_score>>

\* lines 85-90: the assertion, then the empty table and the word total
CheckLengths ==
    /\ pc = "start"
    /\ err = "none"
    /\ IF Len(list_of_references) # Len(hypotheses)
       THEN /\ err' = "AssertionError"
            /\ UNCHANGED <<pc, ngram_freq, total_reference_words, item>>
       ELSE /\ pc' = "count"
            /\ ngram_freq' = EmptyCounter
            /\ total_reference_words' = TotalWords(list_of_references)
            /\ item' = 1
            /\ UNCHANGED err
    /\ UNCHANGED <<list_of_references, hypotheses, n, information_weights,
                   nist_precision_numerator_per_ngram,
                   nist_precision_denominator_per_ngram, l_ref, l_sys, i,
                   nist_score_per_ref, selected, nist_precision, penalty, result>>
    /\ UNCHANGED <<sentence_nist_args, outside_nist_score>>

\* lines 92-95: one reference set of the table-building loop
CountItem ==
    /\ pc = "count"
    /\ item <= Len(list_of_references)
    /\ ngram_freq' = CountReferences(ngram_freq, list_of_references[item], n)
    /\ item' = item + 1
    /\ UNCHANGED <<list_of_references, hypotheses, n, pc, err,
                   total_reference_words, information_weights,
                   nist_precision_numerator_per_ngram,
                   nist_precision_denominator_per_ngram, l_ref, l_sys, i,
                   nist_score_per_ref, selected, nist_precision, penalty, result>>
    /\ UNCHANGED <<sentence_nist_args, outside_nist_score>>

\* lines 97-113: the weights, the empty accumulators, the first order
BuildWeights ==
    /\ pc = "count"
    /\ item > Len(list_of_references)
    /\ information_weights' = InformationWeights(ngram_freq, total_reference_words)
    /\ nist_precision_numerator_per_ngram' = EmptyCounter
    /\ nist_precision_denominator_per_ngram' = EmptyCounter
    /\ l_ref' = 0
    /\ l_sys' = 0
    /\ i' = 1
    /\ item' = 1
    /\ pc' = IF Len(hypotheses) = 0 THEN "sum" ELSE "accumulate"
    /\ UNCHANGED <<list_of_references, hypotheses, n, err, ngram_freq,
                   total_reference_words, nist_score_per_ref, selected,
                   nist_precision, penalty, result>>
    /\ UNCHANGED <<sentence_nist_args, outside_nist_score>>

\* l_ref += ref_len and l_sys += hyp_len, at every order
AddLengthFirstOrderOnly(total, order, length) ==
    IF order = 1 THEN total + length ELSE total

AddLength(total, order, length) == total + length

\* the accumulators and the locals of the accumulation loops
Accumulators(failure, numerators, denominators, ref_total, sys_total, scores, best) ==
    [err |-> failure, numerator |-> numerators, denominator |-> denominators,
     l_ref |-> ref_total, l_sys |-> sys_total,
     nist_score_per_ref |-> scores, selected |-> best]

\* lines 109-111
EmptyAccumulators == Accumulators("none", EmptyCounter, EmptyCounter, 0, 0, None, None)

\* lines 115-139: the body of the loops for one item at one order
AccumulateStep(acc, references, hypothesis, order, weights) ==
    IF \E r \in 1..Len(references) :
           MissingWeight(hypothesis, references[r], order, weights)
    THEN [acc EXCEPT !.err = "KeyError"]
    ELSE LET scores == ScoresPerRef(hypothesis, references, order, weights)
         IN IF scores = <<>>
            THEN [acc EXCEPT !.err = "ValueError", !.nist_score_per_ref = scores]
            ELSE LET best == PyMax(scores)
                 IN Accumulators("none",
                        NumeratorAdd(acc.numerator, order, best.numerator),
                        CounterAdd(acc.denominator, order, best.denominator),
                        AddLength(acc.l_ref, order, best.ref_len),
                        AddLength(acc.l_sys, order, Len(hypothesis)),
                        scores, best)

\* the loops the other way round: every order of an item before the next item
AccumulateItemMajor ==
    /\ pc = "accumulate"
    /\ err = "none"
    /\ \E acc \in {AccumulateStep(
                      Accumulators(err, nist_precision_numerator_per_ngram,
                                   nist_precision_denominator_per_ngram,
                                   l_ref, l_sys, nist_score_per_ref, selected),
                      list_of_references[item], hypotheses[item], i,
                      information_weights)} :
          /\ err' = acc.err
          /\ nist_precision_numerator_per_ngram' = acc.numerator
          /\ nist_precision_denominator_per_ngram' = acc.denominator
          /\ l_ref' = acc.l_ref
          /\ l_sys' = acc.l_sys
          /\ nist_score_per_ref' = acc.nist_score_per_ref
          /\ selected' = acc.selected
          /\ IF acc.err # "none" THEN UNCHANGED <<i, item, pc>>
             ELSE IF i < n
             THEN /\ i' = i + 1
                  /\ UNCHANGED <<item, pc>>
             ELSE /\ i' = 1
                  /\ item' = item + 1
                  /\ pc' = IF item < Len(hypotheses) THEN "accumulate" ELSE "sum"
    /\ UNCHANGED <<list_of_references, hypotheses, n, ngram_freq,
                   total_reference_words, information_weights, nist_precision,
                   penalty, result>>
    /\ UNCHANGED <<sentence_nist_args, outside_nist_score>>

\* lines 115-139 on the state of the run
AccumulateItem ==
    /\ pc = "accumulate"
    /\ err = "none"
    /\ \E acc \in {AccumulateStep(
                      Accumulators(err, nist_precision_numerator_per_ngram,
                                   nist_precision_denominator_per_ngram,
                                   l_ref, l_sys, nist_score_per_ref, selected),
                      list_of_references[item], hypotheses[item], i,
                      information_weights)} :
          /\ err' = acc.err
          /\ nist_precision_numerator_per_ngram' = acc.numerator
          /\ nist_precision_denominator_per_ngram' = acc.denominator
          /\ l_ref' = acc.l_ref
          /\ l_sys' = acc.l_sys
          /\ nist_score_per_ref' = acc.nist_score_per_ref
          /\ selected' = acc.selected
          \* the loop headers of lines 113-114: the next item, the first item
          \* of the next order, or the end of both loops
          /\ IF acc.err # "none" THEN UNCHANGED <<i, item, pc>>
             ELSE IF item < Len(hypotheses)
             THEN /\ item' = item + 1
                  /\ UNCHANGED <<i, pc>>
             ELSE /\ item' = 1
                  /\ i' = i + 1
                  /\ pc' = IF i < n THEN "accumulate" ELSE "sum"
    /\ UNCHANGED <<list_of_references, hypotheses, n, ngram_freq,
                   total_reference_words, information_weights, nist_precision,
                   penalty, result>>
    /\ UNCHANGED <<sentence_nist_args, outside_nist_score>>

\* the per-order precisions divided by the number of orders
PrecisionMean(numerators, denominators) ==
    IF \E order \in DOMAIN numerators : denominators[order] = 0
    THEN Raised("ZeroDivisionError")
    ELSE Sum([order \in DOMAIN numerators |->
                 Quot(numerators[order],
                      denominators[order] * Cardinality(DOMAIN numerators))])

\* lines 141-144: the per-order precisions, over the keys of the Counter
PrecisionSum(numerators, denominators) ==
    IF \E order \in DOMAIN numerators : denominators[order] = 0
    THEN Raised("ZeroDivisionError")
    ELSE Sum([order \in DOMAIN numerators |->
                 Quot(numerators[order], denominators[order])])

IsRaised(value) == value.kind = "raised"

SumPrecisions ==
    /\ pc = "sum"
    /\ err = "none"
    /\ \E value \in {PrecisionSum(nist_precision_numerator_per_ngram,
                                  nist_precision_denominator_per_ngram)} :
          IF IsRaised(value)
          THEN /\ err' = value.exception
               /\ UNCHANGED <<pc, nist_precision>>
          ELSE /\ nist_precision' = value.terms
               /\ pc' = "penalty"
               /\ UNCHANGED err
    /\ UNCHANGED <<list_of_references, hypotheses, n, ngram_freq,
                   total_reference_words, information_weights,
                   nist_precision_numerator_per_ngram,
                   nist_precision_denominator_per_ngram, l_ref, l_sys, i, item,
                   nist_score_per_ref, selected, penalty, result>>
    /\ UNCHANGED <<sentence_nist_args, outside_nist_score>>

\* nist_precision * penalty
Product(precision_sum, factor) ==
    [kind |-> "product", precision |-> precision_sum, penalty |-> factor]

\* line 146: the penalty and the product
CallPenalty ==
    /\ pc = "penalty"
    /\ err = "none"
    /\ \E value \in {nist_length_penalty(l_ref, l_sys)} :
          IF IsRaised(value)
          THEN /\ err' = value.exception
               /\ UNCHANGED <<pc, penalty, result>>
          ELSE /\ penalty' = value
               /\ result' = Product(nist_precision, value)
               /\ pc' = "done"
               /\ UNCHANGED err
    /\ UNCHANGED <<list_of_references, hypotheses, n, ngram_freq,
                   total_reference_words, information_weights,
                   nist_precision_numerator_per_ngram,
                   nist_precision_denominator_per_ngram, l_ref, l_sys, i, item,
                   nist_score_per_ref, selected, nist_precision>>
    /\ UNCHANGED <<sentence_nist_args, outside_nist_score>>

Next ==
    \/ CheckLengths
    \/ CountItem
    \/ BuildWeights
    \/ AccumulateItem
    \/ SumPrecisions
    \/ CallPenalty

Spec == Init /\ [][Next]_vars

(***************************************************************************)
(* nist_length_penalty on its own: every pair of arguments                 *)
(***************************************************************************)
InitPenalty ==
    /\ list_of_references = <<>>
    /\ hypotheses = <<>>
    /\ n = 1
    /\ pc = "penalty"
    /\ err = "none"
    /\ ngram_freq = None
    /\ total_reference_words = None
    /\ information_weights = None
    /\ nist_precision_numerator_per_ngram = None
    /\ nist_precision_denominator_per_ngram = None
    /\ l_ref \in (-MaxArg)..MaxArg
    /\ l_sys \in (-MaxArg)..MaxArg
    /\ i = None
    /\ item = None
    /\ nist_score_per_ref = None
    /\ selected = None
    /\ nist_precision = None
    /\ penalty = None
    /\ result = None
    /\ sentence_nist_args = None
    /\ OutsideNistScoreIdle

NextPenalty == CallPenalty

SpecPenalty == InitPenalty /\ [][NextPenalty]_vars

(***************************************************************************)
(* sentence_nist: one item wrapped as a corpus of one item                 *)
(***************************************************************************)
\* n=5 in the signatures of sentence_nist and of corpus_nist
sentence_nist_default_n == 5

corpus_nist_default_n == 5

\* the size of a call: that of the references and of the hypothesis; a
\* hypothesis of five tokens fits beside a reference of two
SentenceCallSize == MaxSize + 1

\* a call of sentence_nist: the order given or left out
InitSentence ==
    /\ \E a \in 0..(SentenceCallSize - 1) : \E b \in 1..(SentenceCallSize - a) :
       \E r \in HypothesesOfSize[a], h \in SentencesOfSize(b) :
          \/ sentence_nist_args = [references |-> r, hypothesis |-> h]
          \/ \E top \in 1..MaxN :
                sentence_nist_args = [references |-> r, hypothesis |-> h, n |-> top]
    /\ pc = "sentence_nist"
    /\ err = "none"
    /\ list_of_references = None
    /\ hypotheses = None
    /\ n = None
    /\ ngram_freq = None
    /\ total_reference_words = None
    /\ information_weights = None
    /\ nist_precision_numerator_per_ngram = None
    /\ nist_precision_denominator_per_ngram = None
    /\ l_ref = None
    /\ l_sys = None
    /\ i = None
    /\ item = None
    /\ nist_score_per_ref = None
    /\ selected = None
    /\ nist_precision = None
    /\ penalty = None
    /\ result = None
    /\ OutsideNistScoreIdle

\* the order argument not passed on
sentence_nist_without_order ==
    /\ pc = "sentence_nist"
    /\ list_of_references' = <<sentence_nist_args.references>>
    /\ hypotheses' = <<sentence_nist_args.hypothesis>>
    /\ n' = corpus_nist_default_n
    /\ pc' = "start"
    /\ UNCHANGED <<err, ngram_freq, total_reference_words, information_weights,
                   nist_precision_numerator_per_ngram,
                   nist_precision_denominator_per_ngram, l_ref, l_sys, i, item,
                   nist_score_per_ref, selected, nist_precision, penalty, result,
                   sentence_nist_args, outside_nist_score>>

\* line 70: corpus_nist([references], [hypothesis], n); what corpus_nist
\* returns or raises is what sentence_nist returns or raises
sentence_nist ==
    /\ pc = "sentence_nist"
    /\ list_of_references' = <<sentence_nist_args.references>>
    /\ hypotheses' = <<sentence_nist_args.hypothesis>>
    /\ n' = IF "n" \in DOMAIN sentence_nist_args THEN sentence_nist_args.n
            ELSE sentence_nist_default_n
    /\ pc' = "start"
    /\ UNCHANGED <<err, ngram_freq, total_reference_words, information_weights,
                   nist_precision_numerator_per_ngram,
                   nist_precision_denominator_per_ngram, l_ref, l_sys, i, item,
                   nist_score_per_ref, selected, nist_precision, penalty, result,
                   sentence_nist_args, outside_nist_score>>

NextSentence ==
    \/ sentence_nist
    \/ CheckLengths
    \/ CountItem
    \/ BuildWeights
    \/ AccumulateItem
    \/ SumPrecisions
    \/ CallPenalty

SpecSentence == InitSentence /\ [][NextSentence]_vars

(***************************************************************************)
(* nltk/sem/lfg.py: FStructure, a dict whose item access lower-cases the   *)
(* key.  A key is a string, here a sequence of characters.                 *)
(***************************************************************************)
NumItems == 2
MaxKeyLen == 2
MaxStored == 3

\* a lower-case letter and its upper-case form
CasePairs == {<<"a", "A">>, <<"b", "B">>, <<"e", "E">>, <<"t", "T">>}

\* str.lower() and str.upper(), character by character
LowerChar(c) ==
    IF \E p \in CasePairs : p[2] = c
    THEN (CHOOSE p \in CasePairs : p[2] = c)[1] ELSE c

UpperChar(c) ==
    IF \E p \in CasePairs : p[1] = c
    THEN (CHOOSE p \in CasePairs : p[1] = c)[2] ELSE c

Lower(str) == [k \in 1..Len(str) |-> LowerChar(str[k])]

Upper(str) == [k \in 1..Len(str) |-> UpperChar(str[k])]

FeatureKeys == UNION {[1..len -> {"a", "A"}] : len \in 1..MaxKeyLen}

FeatureItems == 1..NumItems

\* lines 30-31: __contains__
FStructureContains(d, key) == Lower(key) \in DOMAIN d

\* lines 27-28: __getitem__, KeyError for a key not stored
FStructureGetItem(d, key) ==
    IF Lower(key) \in DOMAIN d THEN d[Lower(key)] ELSE Raised("KeyError")

\* lines 24-25: __setitem__
FStructureSetItem(d, key, value) ==
    [k \in DOMAIN d \cup {Lower(key)} |-> IF k = Lower(key) THEN value ELSE d[k]]

\* dict.setdefault(key, default), which FStructure does not override: the
\* dict after the call
DictSetDefault(d, key, default) ==
    IF key \in DOMAIN d THEN d ELSE [k \in DOMAIN d \cup {key} |-> IF k = key THEN default ELSE d[k]]

\* the number of items stored in the lists of d
RECURSIVE Stored(_)
Stored(d) ==
    IF DOMAIN d = {} THEN 0
    ELSE LET key == CHOOSE k \in DOMAIN d : TRUE
         IN Len(d[key]) + Stored([k \in DOMAIN d \ {key} |-> d[k]])

\* lines 208-211: FStructure()
InitLfg ==
    /\ fstruct = <<>>
    /\ safeappend_args = None
    /\ OutsideLfgIdle

\* lines 213-218, the definition in force: self.setdefault(key, []).append(item)
safeappend ==
    /\ Stored(fstruct) < MaxStored
    /\ \E key \in FeatureKeys, element \in FeatureItems :
          /\ fstruct' = [DictSetDefault(fstruct, key, <<>>) EXCEPT ![key] = Append(@, element)]
          /\ safeappend_args' = [key |-> key, item |-> element]
    /\ UNCHANGED outside_lfg

\* fstruct[key] = value, a list of items
SetItem ==
    /\ Stored(fstruct) < MaxStored
    /\ \E key \in FeatureKeys, value \in {<<>>} \cup {<<x>> : x \in FeatureItems} :
          fstruct' = FStructureSetItem(fstruct, key, value)
    /\ safeappend_args' = None
    /\ UNCHANGED outside_lfg

NextLfg ==
    \/ safeappend
    \/ SetItem

SpecLfg == InitLfg /\ [][NextLfg]_vars

(***************************************************************************)
(* nltk/misc/wordfinder.py.  A word is a sequence of characters; a grid    *)
(* is a list of rows, each a list of cells, indexed from 0 as in Python.   *)
(* Every random draw is a choice over the values it can return.            *)
(***************************************************************************)
GridRows == 3
GridCols == 3
MaxWords == 2
MaxWordLen == 2
MaxAttempts == 2

\* the words of the argument: letters, with or without a blank in front,
\* and the word of one blank
RawWords ==
    LET letters == UNION {[1..len -> {"a", "b"}] : len \in 1..MaxWordLen}
    IN letters \cup {<<" ">> \o w : w \in letters} \cup {<<" ">>}

RECURSIVE WordLists(_)
WordLists(len) ==
    IF len = 0 THEN {<<>>}
    ELSE {Append(list, w) : list \in WordLists(len - 1), w \in RawWords}

\* word[::-1]
Reverse(str) == [k \in 1..Len(str) |-> str[Len(str) + 1 - k]]

\* str.strip(): the blanks at both ends removed
RECURSIVE Strip(_)
Strip(str) ==
    IF str = <<>> THEN str
    ELSE IF Head(str) = " " THEN Strip(Tail(str))
    ELSE IF str[Len(str)] = " " THEN Strip(SubSeq(str, 1, Len(str) - 1))
    ELSE str

\* sorted(words, key=len, reverse=True): longest first, words of one length
\* in the order they came
RECURSIVE InsertByLen(_, _)
InsertByLen(sorted, w) ==
    IF sorted = <<>> THEN <<w>>
    ELSE IF Len(Head(sorted)) >= Len(w)
    THEN <<Head(sorted)>> \o InsertByLen(Tail(sorted), w)
    ELSE <<w>> \o sorted

RECURSIVE SortedByLen(_)
SortedByLen(list) ==
    IF list = <<>> THEN <<>>
    ELSE InsertByLen(SortedByLen(SubSeq(list, 1, Len(list) - 1)), list[Len(list)])

\* [[""] * cols for _ in range(rows)]
BlankGrid(nrows, ncols) == [a \in 0..(nrows - 1) |-> [b \in 0..(ncols - 1) |-> ""]]

\* a list index of Python: a negative one counts from the end
PyIndexOk(len, k) == -len <= k /\ k < len

PyIndex(len, k) == IF k < 0 THEN k + len ELSE k

NumRows(g) == Cardinality(DOMAIN g)

NumCols(g) == IF DOMAIN g = {} THEN 0 ELSE Cardinality(DOMAIN g[0])

\* the cell xf(i), yf(i) of the lambdas of check, for i = k - 1
PathCell(x, dx, y, dy, k) == <<x + dx * (k - 1), y + dy * (k - 1)>>

\* the cell of the grid a pair of indices selects
GridCell(g, c) == <<PyIndex(NumRows(g), c[1]), PyIndex(NumCols(g), c[2])>>

\* lines 130-132: the first loop of step, from the letter k on
RECURSIVE StepScan(_, _, _, _, _, _, _)
StepScan(w, x, dx, y, dy, g, k) ==
    IF k > Len(w) THEN "free"
    ELSE LET c == PathCell(x, dx, y, dy, k)
         IN IF ~PyIndexOk(NumRows(g), c[1]) \/ ~PyIndexOk(NumCols(g), c[2])
            THEN "IndexError"
            ELSE IF g[GridCell(g, c)[1]][GridCell(g, c)[2]] \notin {"", w[k]}
            THEN "conflict"
            ELSE StepScan(w, x, dx, y, dy, g, k + 1)

\* lines 133-134: the second loop of step
StepWrite(w, x, dx, y, dy, g) ==
    [a \in DOMAIN g |-> [b \in DOMAIN g[a] |->
        LET at == {k \in 1..Len(w) : GridCell(g, PathCell(x, dx, y, dy, k)) = <<a, b>>}
        IN IF at = {} THEN g[a][b]
           ELSE w[CHOOSE k \in at : \A other \in at : other <= k]]]

StepResult(ok, g, failure) == [ok |-> ok, grid |-> g, err |-> failure]

\* the check for a conflict left out
step_overwriting(w, x, dx, y, dy, g) ==
    StepResult(TRUE, StepWrite(w, x, dx, y, dy, g), "none")

\* the letters before the first conflict written, False returned
step_writing_until_conflict(w, x, dx, y, dy, g) ==
    LET scan == StepScan(w, x, dx, y, dy, g, 1)
        clash == {k \in 1..Len(w) :
                     StepScan(SubSeq(w, 1, k), x, dx, y, dy, g, 1) = "conflict"}
    IN IF scan = "IndexError" THEN StepResult(FALSE, g, "IndexError")
       ELSE IF scan = "conflict"
       THEN StepResult(FALSE,
                       StepWrite(SubSeq(w, 1, (CHOOSE k \in clash :
                                                  \A other \in clash : k <= other) - 1),
                                 x, dx, y, dy, g),
                       "none")
       ELSE StepResult(TRUE, StepWrite(w, x, dx, y, dy, g), "none")

\* lines 128-135, the definition of step in force
step(w, x, dx, y, dy, g) ==
    LET scan == StepScan(w, x, dx, y, dy, g, 1)
    IN IF scan = "IndexError" THEN StepResult(FALSE, g, "IndexError")
       ELSE IF scan = "conflict" THEN StepResult(FALSE, g, "none")
       ELSE StepResult(TRUE, StepWrite(w, x, dx, y, dy, g), "none")

\* the tests on y left out of the conditions
check_rows_only(w, dir, x, y, g, nrows, ncols) ==
    LET length == Len(w)
    IN IF dir = 1 /\ x - length >= 0
       THEN step(w, x, -1, y, -1, g)
       ELSE IF dir = 2 /\ x - length >= 0
       THEN step(w, x, -1, y, 0, g)
       ELSE IF dir = 3 /\ x - length >= 0
       THEN step(w, x, -1, y, 1, g)
       ELSE IF dir = 4
       THEN step(w, x, 0, y, -1, g)
       ELSE StepResult(FALSE, g, "none")

\* lines 32-42
check(w, dir, x, y, g, nrows, ncols) ==
    LET length == Len(w)
    IN IF dir = 1 /\ (x - length >= 0 /\ y - length >= 0)
       THEN step(w, x, -1, y, -1, g)
       ELSE IF dir = 2 /\ (x - length >= 0)
       THEN step(w, x, -1, y, 0, g)
       ELSE IF dir = 3 /\ (x - length >= 0 /\ y + length <= ncols)
       THEN step(w, x, -1, y, 1, g)
       ELSE IF dir = 4 /\ (y - length >= 0)
       THEN step(w, x, 0, y, -1, g)
       ELSE StepResult(FALSE, g, "none")

\* lines 81-90: the start position moved by the random offset
Moved(dir, x, y, r) ==
    IF dir = 1 THEN <<x + r, y + r>>
    ELSE IF dir = 2 THEN <<x + r, y>>
    ELSE IF dir = 3 THEN <<x + r, y - r>>
    ELSE IF dir = 4 THEN <<x, y + r>>
    ELSE <<x, y>>

\* lines 77-96: one attempt with the draws r, dir, x, y
TryPlace(w, r, dir, x, y, g, nrows, ncols) ==
    LET at == Moved(dir, x, y, r)
    IN IF 0 <= at[1] /\ at[1] < nrows /\ 0 <= at[2] /\ at[2] < ncols
       THEN check(w, dir, at[1], at[2], g, nrows, ncols)
       ELSE StepResult(FALSE, g, "none")

\* lines 100-103: the grids the filling of the blank cells can give
Filled(g, letters) ==
    LET blank == {c \in UNION {{<<a, b>> : b \in DOMAIN g[a]} : a \in DOMAIN g} :
                     g[c[1]][c[2]] = ""}
    IN {[a \in DOMAIN g |-> [b \in DOMAIN g[a] |->
            IF <<a, b>> \in blank THEN letters[f[<<a, b>>]] ELSE g[a][b]]] :
        f \in [blank -> DOMAIN letters]}

\* the alphabets the blank cells are filled from
Alphabets == {<<"A", "B">>}

\* a call of wordfinder
InitWordfinder ==
    /\ words \in UNION {WordLists(len) : len \in 0..MaxWords}
    /\ rows = GridRows
    /\ cols = GridCols
    /\ attempts \in 1..MaxAttempts
    /\ alph \in Alphabets
    /\ grid = None
    /\ used = None
    /\ word_index = None
    /\ word = None
    /\ save = None
    /\ attempt = None
    /\ wordfinder_pc = "start"
    /\ OutsideWordfinderIdle

\* lines 66-68
SortWords ==
    /\ wordfinder_pc = "start"
    /\ words' = SortedByLen(words)
    /\ grid' = BlankGrid(rows, cols)
    /\ used' = <<>>
    /\ word_index' = 1
    /\ wordfinder_pc' = "word"
    /\ UNCHANGED <<rows, cols, attempts, alph, word, save, attempt>>
    /\ UNCHANGED outside_wordfinder

\* lines 70-76: the next word, stripped, in upper case, reversed or not
TakeWord ==
    /\ wordfinder_pc = "word"
    /\ word_index <= Len(words)
    /\ save' = Upper(Strip(words[word_index]))
    /\ \E reversed \in BOOLEAN :
          word' = IF reversed THEN Reverse(save') ELSE save'
    /\ IF attempts > 0
       THEN /\ attempt' = 0
            /\ wordfinder_pc' = "attempt"
            /\ UNCHANGED word_index
       ELSE /\ word_index' = word_index + 1
            /\ UNCHANGED <<attempt, wordfinder_pc>>
    /\ UNCHANGED <<words, rows, cols, attempts, alph, grid, used>>
    /\ UNCHANGED outside_wordfinder

\* lines 77-98: one attempt; on success the word is recorded and the loop
\* left, after the last failure the loop ends
Attempt ==
    /\ wordfinder_pc = "attempt"
    /\ \E r \in 0..Len(word), dir \in 1..4, x \in 0..rows, y \in 0..cols :
       \E placed \in {TryPlace(word, r, dir, x, y, grid, rows, cols)} :
          IF placed.err # "none"
          THEN /\ wordfinder_pc' = placed.err
               /\ UNCHANGED <<grid, used, word_index, attempt>>
          ELSE IF placed.ok
          THEN /\ grid' = placed.grid
               /\ used' = Append(used, save)
               /\ word_index' = word_index + 1
               /\ wordfinder_pc' = "word"
               /\ UNCHANGED attempt
          ELSE /\ grid' = placed.grid
               /\ UNCHANGED used
               /\ IF attempt + 1 < attempts
                  THEN /\ attempt' = attempt + 1
                       /\ UNCHANGED <<word_index, wordfinder_pc>>
                  ELSE /\ word_index' = word_index + 1
                       /\ wordfinder_pc' = "word"
                       /\ UNCHANGED attempt
    /\ UNCHANGED <<words, rows, cols, attempts, alph, word, save>>
    /\ UNCHANGED outside_wordfinder

\* lines 100-105: the blank cells filled, (grid, used) returned
FillBlanks ==
    /\ wordfinder_pc = "word"
    /\ word_index > Len(words)
    /\ grid' \in Filled(grid, alph)
    /\ wordfinder_pc' = "done"
    /\ UNCHANGED <<words, rows, cols, attempts, alph, used, word_index, word,
                   save, attempt>>
    /\ UNCHANGED outside_wordfinder

NextWordfinder ==
    \/ SortWords
    \/ TakeWord
    \/ Attempt
    \/ FillBlanks

SpecWordfinder == InitWordfinder /\ [][NextWordfinder]_vars

(***************************************************************************)
(* nltk/stem/cistem.py: Cistem.segment.  A word is a sequence of           *)
(* characters, none of them a line break.                                  *)
(***************************************************************************)
MaxStemLen == 6

\* the characters of the words: letters, a character that replace_to uses
\* as a mark, and capitals for the first place
StemChars == {"e", "i", "n", "r", "t", "&"}

StemCapitals == {"E", "T"}

\* str.replace(old, new): every occurrence, from the left, none overlapping
RECURSIVE StrReplace(_, _, _)
StrReplace(str, old, new) ==
    IF Len(str) < Len(old) THEN str
    ELSE IF SubSeq(str, 1, Len(old)) = old
    THEN new \o StrReplace(SubSeq(str, Len(old) + 1, Len(str)), old, new)
    ELSE <<Head(str)>> \o StrReplace(Tail(str), old, new)

\* repl_xx.sub(r"\1*", word), repl_xx = (.)\1
RECURSIVE ReplXx(_)
ReplXx(str) ==
    IF Len(str) < 2 THEN str
    ELSE IF str[1] = str[2]
    THEN <<str[1], "*">> \o ReplXx(SubSeq(str, 3, Len(str)))
    ELSE <<Head(str)>> \o ReplXx(Tail(str))

\* repl_xx_back.sub(r"\1\1", word), repl_xx_back = (.)\*
RECURSIVE ReplXxBack(_)
ReplXxBack(str) ==
    IF Len(str) < 2 THEN str
    ELSE IF str[2] = "*"
    THEN <<str[1], str[1]>> \o ReplXxBack(SubSeq(str, 3, Len(str)))
    ELSE <<Head(str)>> \o ReplXxBack(Tail(str))

\* lines 212-217, the definition in force
replace_to(str) ==
    ReplXx(StrReplace(StrReplace(StrReplace(str, <<"s", "c", "h">>, <<"$">>),
                                 <<"e", "i">>, <<"%">>),
                      <<"i", "e">>, <<"&">>))

\* lines 219-225, the definition in force
replace_back(str) ==
    StrReplace(StrReplace(StrReplace(ReplXxBack(str), <<"%">>, <<"e", "i">>),
                          <<"&">>, <<"i", "e">>),
               <<"$">>, <<"s", "c", "h">>)

\* the patterns that strip an ending
strip_emr == {<<"e", "m">>, <<"e", "r">>}

strip_nd == {<<"n", "d">>}

strip_t == {<<"t">>}

strip_esn == {<<"e">>, <<"s">>, <<"n">>}

EndsWith(str, ending) ==
    Len(str) >= Len(ending)
        /\ SubSeq(str, Len(str) - Len(ending) + 1, Len(str)) = ending

\* lines 175-177: pattern.subn("", word) with the increment
apply_regex(pattern, str, rest_increment) ==
    IF \E ending \in pattern : EndsWith(str, ending)
    THEN LET ending == CHOOSE e \in pattern : EndsWith(str, e)
         IN [word |-> SubSeq(str, 1, Len(str) - Len(ending)),
             increment |-> rest_increment, n |-> 1]
    ELSE [word |-> str, increment |-> 0, n |-> 0]

\* lines 179-201: one turn of the loop; n = 0 is the break
LoopTurn(str, capital, insensitive) ==
    LET emr == apply_regex(strip_emr, str, 2)
        nd == apply_regex(strip_nd, str, 2)
        t == apply_regex(strip_t, str, 1)
        esn == apply_regex(strip_esn, str, 1)
    IN IF Len(str) > 5 /\ emr.n > 0 THEN emr
       ELSE IF Len(str) > 5 /\ nd.n > 0 THEN nd
       ELSE IF (~capital \/ insensitive) /\ t.n > 0 THEN t
       ELSE esn

\* word[0].isupper()
IsUpper(c) == \E p \in CasePairs : p[2] = c

\* word_copy[-rest_length:]
LastChars(str, count) ==
    IF count >= Len(str) THEN str ELSE SubSeq(str, Len(str) - count + 1, Len(str))

\* Cistem(case_insensitive).segment(word)
InitCistem ==
    /\ case_insensitive \in BOOLEAN
    /\ \E len \in 0..MaxStemLen :
          segment_arg \in [1..len -> StemChars]
                          \cup {<<c>> \o w : c \in StemCapitals,
                                             w \in [1..(len - 1) -> StemChars]}
    /\ stem_word = None
    /\ upper = None
    /\ word_copy = None
    /\ rest_length = None
    /\ segment_result = None
    /\ cistem_pc = "segment"
    /\ OutsideCistemIdle

\* lines 299-305 and 169-173: segment up to the loop of _segment_inner
Segment ==
    /\ cistem_pc = "segment"
    /\ IF Len(segment_arg) = 0
       THEN /\ segment_result' = <<<<>>, <<>>>>
            /\ cistem_pc' = "done"
            /\ UNCHANGED <<stem_word, upper, word_copy, rest_length>>
       ELSE /\ upper' = IsUpper(segment_arg[1])
            /\ word_copy' = Lower(segment_arg)
            /\ stem_word' = replace_to(Lower(segment_arg))
            /\ rest_length' = 0
            /\ cistem_pc' = "loop"
            /\ UNCHANGED segment_result
    /\ UNCHANGED <<case_insensitive, segment_arg>>
    /\ UNCHANGED outside_cistem

\* lines 179-199: a turn of the loop that strips an ending
StripEnding ==
    /\ cistem_pc = "loop"
    /\ Len(stem_word) > 3
    /\ \E turn \in {LoopTurn(stem_word, upper, case_insensitive)} :
          /\ turn.n > 0
          /\ stem_word' = turn.word
          /\ rest_length' = rest_length + turn.increment * turn.n
    /\ UNCHANGED <<case_insensitive, segment_arg, upper, word_copy,
                   segment_result, cistem_pc>>
    /\ UNCHANGED outside_cistem

\* lines 179, 200-208: the loop ends, the pair is returned
ReturnSegment ==
    /\ cistem_pc = "loop"
    /\ Len(stem_word) <= 3 \/ LoopTurn(stem_word, upper, case_insensitive).n = 0
    /\ stem_word' = replace_back(stem_word)
    /\ segment_result' = <<replace_back(stem_word),
                           IF rest_length # 0 THEN LastChars(word_copy, rest_length)
                           ELSE <<>> >>
    /\ cistem_pc' = "done"
    /\ UNCHANGED <<case_insensitive, segment_arg, upper, word_copy, rest_length>>
    /\ UNCHANGED outside_cistem

NextCistem ==
    \/ Segment
    \/ StripEnding
    \/ ReturnSegment

SpecCistem == InitCistem /\ [][NextCistem]_vars

(***************************************************************************)
(* nltk/parse/evaluate.py: DependencyEvaluator.eval.  A sentence is the    *)
(* nodes of its graph in the order of their addresses, a node the record   *)
(* of its word, head and rel; a word is None or a string of characters.    *)
(***************************************************************************)
MaxSents == 2
MaxNodes == 2
MaxEvalSize == 4

Str(chars) == [kind |-> "str", chars |-> chars]

NodeWords == {None, Str(<<",">>), Str(<<"a">>), Str(<<",", "a">>)}

\* the arcs of a node: (head, rel)
NodeArcs == {<<0, "P">>, <<1, "P">>, <<1, "NMOD">>}

GraphNodes == {[word |-> w, head |-> arc[1], rel |-> arc[2]] : w \in NodeWords, arc \in NodeArcs}

\* the lists of sentences with n nodes in all
RECURSIVE SentsOfSize(_, _)
SentsOfSize(count, size) ==
    IF count = 0 THEN (IF size = 0 THEN {<<>>} ELSE {})
    ELSE UNION {{<<nodes>> \o rest : nodes \in [1..len -> GraphNodes],
                                     rest \in SentsOfSize(count - 1, size - len)} :
                len \in 1..(IF size < MaxNodes THEN size ELSE MaxNodes)}

\* unicodedata.category(x)
unicodedata_category(x) ==
    CASE x = "," -> "Po"
      [] x = "-" -> "Pd"
      [] x = "$" -> "Sc"
      [] OTHER -> "Ll"

punc_cat == {"Pc", "Pd", "Ps", "Pe", "Pi", "Pf", "Po"}

\* any(...) in the place of all(...)
is_punct_any(inStr) ==
    \E x \in DOMAIN inStr.chars : unicodedata_category(inStr.chars[x]) \in punc_cat

\* lines 132-139
is_punct(inStr) ==
    \A x \in DOMAIN inStr.chars : unicodedata_category(inStr.chars[x]) \in punc_cat

\* lines 112-128: what a node does to (corr, corrL, total), or the exception
EvalNodeStep(parsed_node, gold_node, counts) ==
    IF parsed_node.word = None THEN counts
    ELSE IF parsed_node.word # gold_node.word THEN Raised("ValueError")
    ELSE IF is_punct(parsed_node.word) THEN counts
    ELSE [total |-> counts.total + 1,
          corr |-> IF parsed_node.head = gold_node.head
                   THEN counts.corr + 1 ELSE counts.corr,
          corrL |-> IF parsed_node.head = gold_node.head
                       /\ parsed_node.rel = gold_node.rel
                    THEN counts.corrL + 1 ELSE counts.corrL]

\* line 130
EvalReturnValue(counts) ==
    IF counts.total = 0 THEN Raised("ZeroDivisionError")
    ELSE <<Rat(counts.corrL, counts.total), Rat(counts.corr, counts.total)>>

\* DependencyEvaluator(parsed_sents, gold_sents).eval()
InitEvaluate ==
    /\ \E sents \in {[count \in 0..MaxSents, size \in 0..MaxEvalSize |->
                         SentsOfSize(count, size)]} :
       \E np \in 0..MaxSents, ng \in 0..MaxSents :
       \E sp \in 0..MaxEvalSize : \E sg \in 0..(MaxEvalSize - sp) :
       \E parsed \in sents[np, sp], gold \in sents[ng, sg] :
          /\ parsed_sents = parsed
          /\ gold_sents = gold
    /\ sent_index = None
    /\ node_index = None
    /\ corr = None
    /\ corrL = None
    /\ eval_total = None
    /\ eval_result = None
    /\ eval_pc = "start"
    /\ OutsideEvaluateIdle

\* lines 93-103
EvalStart ==
    /\ eval_pc = "start"
    /\ IF Len(parsed_sents) # Len(gold_sents)
       THEN /\ eval_result' = Raised("ValueError")
            /\ eval_pc' = "raised"
            /\ UNCHANGED <<sent_index, corr, corrL, eval_total>>
       ELSE /\ corr' = 0
            /\ corrL' = 0
            /\ eval_total' = 0
            /\ sent_index' = 1
            /\ eval_pc' = "sentence"
            /\ UNCHANGED eval_result
    /\ UNCHANGED <<parsed_sents, gold_sents, node_index>>
    /\ UNCHANGED outside_evaluate

\* lines 105-110
EvalSentence ==
    /\ eval_pc = "sentence"
    /\ sent_index <= Len(parsed_sents)
    /\ IF Len(parsed_sents[sent_index]) # Len(gold_sents[sent_index])
       THEN /\ eval_result' = Raised("ValueError")
            /\ eval_pc' = "raised"
            /\ UNCHANGED node_index
       ELSE /\ node_index' = 1
            /\ eval_pc' = "node"
            /\ UNCHANGED eval_result
    /\ UNCHANGED <<parsed_sents, gold_sents, sent_index, corr, corrL, eval_total>>
    /\ UNCHANGED outside_evaluate

\* lines 112-128: one node; after the last node the next sentence
EvalNode ==
    /\ eval_pc = "node"
    /\ \E after \in {EvalNodeStep(parsed_sents[sent_index][node_index],
                                  gold_sents[sent_index][node_index],
                                  [total |-> eval_total, corr |-> corr, corrL |-> corrL])} :
          IF after = Raised("ValueError")
          THEN /\ eval_result' = after
               /\ eval_pc' = "raised"
               /\ UNCHANGED <<sent_index, node_index, corr, corrL, eval_total>>
          ELSE /\ eval_total' = after.total
               /\ corr' = after.corr
               /\ corrL' = after.corrL
               /\ IF node_index < Len(parsed_sents[sent_index])
                  THEN /\ node_index' = node_index + 1
                       /\ UNCHANGED <<sent_index, eval_pc>>
                  ELSE /\ sent_index' = sent_index + 1
                       /\ eval_pc' = "sentence"
                       /\ UNCHANGED node_index
               /\ UNCHANGED eval_result
    /\ UNCHANGED <<parsed_sents, gold_sents>>
    /\ UNCHANGED outside_evaluate

\* line 130
EvalReturn ==
    /\ eval_pc = "sentence"
    /\ sent_index > Len(parsed_sents)
    /\ eval_result' = EvalReturnValue([total |-> eval_total, corr |-> corr, corrL |-> corrL])
    /\ eval_pc' = IF eval_total = 0 THEN "raised" ELSE "done"
    /\ UNCHANGED <<parsed_sents, gold_sents, sent_index, node_index, corr, corrL, eval_total>>
    /\ UNCHANGED outside_evaluate

NextEvaluate ==
    \/ EvalStart
    \/ EvalSentence
    \/ EvalNode
    \/ EvalReturn

SpecEvaluate == InitEvaluate /\ [][NextEvaluate]_vars

\* eval as a function of the two lists: the loops of lines 105-128
RECURSIVE EvalNodes(_, _, _, _)
EvalNodes(parsed_nodes, gold_nodes, position, counts) ==
    IF position > Len(parsed_nodes) THEN counts
    ELSE LET after == EvalNodeStep(parsed_nodes[position], gold_nodes[position], counts)
         IN IF after = Raised("ValueError") THEN after
            ELSE EvalNodes(parsed_nodes, gold_nodes, position + 1, after)

RECURSIVE EvalSents(_, _, _, _)
EvalSents(parsed, gold, position, counts) ==
    IF position > Len(parsed) THEN EvalReturnValue(counts)
    ELSE IF Len(parsed[position]) # Len(gold[position]) THEN Raised("ValueError")
    ELSE LET after == EvalNodes(parsed[position], gold[position], 1, counts)
         IN IF after = Raised("ValueError") THEN after
            ELSE EvalSents(parsed, gold, position + 1, after)

eval(parsed, gold) ==
    IF Len(parsed) # Len(gold) THEN Raised("ValueError")
    ELSE EvalSents(parsed, gold, 1, [total |-> 0, corr |-> 0, corrL |-> 0])

(***************************************************************************)
(* corpus_nist as a function of its arguments: the same steps, run to the  *)
(* end or to the first exception                                           *)
(***************************************************************************)
\* lines 92-95, every reference set
RECURSIVE CountCorpus(_, _, _)
CountCorpus(c, corpus, top) ==
    IF corpus = <<>> THEN c
    ELSE CountCorpus(CountReferences(c, Head(corpus), top), Tail(corpus), top)

\* line 114, the items from index on, at one order; run.selections collects
\* the tuple selected at every step
RECURSIVE AccumulateItems(_, _, _, _, _, _)
AccumulateItems(run, corpus, hyps, order, index, weights) ==
    IF index > Len(hyps) \/ run.acc.err # "none" THEN run
    ELSE LET acc == AccumulateStep(run.acc, corpus[index], hyps[index], order,
                                   weights)
         IN AccumulateItems(
                [acc |-> acc,
                 selections |-> IF acc.err = "none"
                                THEN Append(run.selections, acc.selected)
                                ELSE run.selections],
                corpus, hyps, order, index + 1, weights)

\* line 113, the orders from order to top
RECURSIVE AccumulateOrders(_, _, _, _, _, _)
AccumulateOrders(run, corpus, hyps, order, top, weights) ==
    IF order > top \/ run.acc.err # "none" THEN run
    ELSE AccumulateOrders(AccumulateItems(run, corpus, hyps, order, 1, weights),
                          corpus, hyps, order + 1, top, weights)

Outcome(failure, score, run) ==
    [err |-> failure, result |-> score, numerator |-> run.acc.numerator,
     denominator |-> run.acc.denominator, l_ref |-> run.acc.l_ref,
     l_sys |-> run.acc.l_sys, selections |-> run.selections]

corpus_nist(corpus, hyps, top) ==
    IF Len(corpus) # Len(hyps)
    THEN [err |-> "AssertionError", result |-> None]
    ELSE LET freq == CountCorpus(EmptyCounter, corpus, top)
             weights == InformationWeights(freq, TotalWords(corpus))
             run == AccumulateOrders([acc |-> EmptyAccumulators, selections |-> <<>>],
                                     corpus, hyps, 1, top, weights)
             precision_sum == PrecisionSum(run.acc.numerator, run.acc.denominator)
             factor == nist_length_penalty(run.acc.l_ref, run.acc.l_sys)
         IN IF run.acc.err # "none" THEN Outcome(run.acc.err, None, run)
            ELSE IF IsRaised(precision_sum)
            THEN Outcome(precision_sum.exception, None, run)
            ELSE IF IsRaised(factor) THEN Outcome(factor.exception, None, run)
            ELSE Outcome("none", Product(precision_sum.terms, factor), run)

(***************************************************************************)
(* The sign of a score                                                     *)
(***************************************************************************)
QuotSign(x) == LogSign(x.num)

\* the terms of a sum raised to a common denominator and multiplied out
RECURSIVE CommonPower(_, _, _)
CommonPower(terms, common, side) ==
    IF DOMAIN terms = {} THEN 1
    ELSE LET key == CHOOSE x \in DOMAIN terms : TRUE
         IN Pow(terms[key].num[side], common \div terms[key].den)
            * CommonPower([x \in DOMAIN terms \ {key} |-> terms[x]], common, side)

RECURSIVE DenProduct(_)
DenProduct(terms) ==
    IF DOMAIN terms = {} THEN 1
    ELSE LET key == CHOOSE x \in DOMAIN terms : TRUE
         IN terms[key].den * DenProduct([x \in DOMAIN terms \ {key} |-> terms[x]])

\* the sign of the sum of the terms
SumSign(terms) ==
    IF \A key \in DOMAIN terms : QuotSign(terms[key]) >= 0
    THEN IF \E key \in DOMAIN terms : QuotSign(terms[key]) > 0 THEN 1 ELSE 0
    ELSE IF \A key \in DOMAIN terms : QuotSign(terms[key]) <= 0 THEN -1
    ELSE LET common == DenProduct(terms)
         IN LogSign(<<CommonPower(terms, common, 1), CommonPower(terms, common, 2)>>)

\* a smooth penalty is exp(..) > 0
PenaltySign(value) ==
    IF value.kind = "smooth" THEN 1
    ELSE IF value.val[1] > 0 THEN 1 ELSE IF value.val[1] < 0 THEN -1 ELSE 0

ScoreSign(score) == SumSign(score.precision) * PenaltySign(score.penalty)

Returned == pc = "done"

Failed == err # "none"

(***************************************************************************)
(* C1: an order whose summed denominator is 0 contributes 0 to the         *)
(* precision sum and corpus_nist still returns a score: summing the        *)
(* per-order precisions never raises because of such an order.             *)
(* The code divides by the zero denominator at line 142.                   *)
(***************************************************************************)
DegenerateOrder(order) ==
    /\ pc \in {"sum", "penalty", "done"}
    /\ order \in DOMAIN nist_precision_denominator_per_ngram
    /\ nist_precision_denominator_per_ngram[order] = 0

C1_DegenerateOrderNeverRaises ==
    \A order \in 1..n :
        DegenerateOrder(order) =>
            /\ ~(pc = "sum" /\ Failed)
            /\ pc \in {"penalty", "done"} => QuotSign(nist_precision[order]) = 0

(***************************************************************************)
(* C2: an empty hypothesis against a reference set with a non-empty        *)
(* reference scores exactly 0.0, for every maximum order.                  *)
(* The code raises ZeroDivisionError instead (the division of C1).         *)
(***************************************************************************)
EmptyHypothesisCall ==
    /\ Len(list_of_references) = 1
    /\ Len(hypotheses) = 1
    /\ hypotheses[1] = <<>>
    /\ \E r \in 1..Len(list_of_references[1]) : list_of_references[1][r] # <<>>

C2_EmptyHypothesisScoresZero ==
    (EmptyHypothesisCall /\ (Returned \/ Failed)) =>
        (Returned /\ ScoreSign(result) = 0)

(***************************************************************************)
(* C3: with a number of reference sets different from the number of        *)
(* hypotheses, corpus_nist fails with the assertion's error while every    *)
(* table and accumulator is still untouched, and returns no score.         *)
(***************************************************************************)
LengthMismatch == Len(list_of_references) # Len(hypotheses)

C3_LengthMismatchFailsFirst ==
    LengthMismatch =>
        /\ pc = "start"
        /\ err \in {"none", "AssertionError"}
        /\ ngram_freq = None
        /\ total_reference_words = None
        /\ information_weights = None
        /\ nist_precision_numerator_per_ngram = None
        /\ nist_precision_denominator_per_ngram = None
        /\ l_ref = None
        /\ l_sys = None
        /\ result = None

C3_Witness == LengthMismatch /\ err = "AssertionError"

(***************************************************************************)
(* C4: every score corpus_nist returns is >= 0.                            *)
(***************************************************************************)
C4_ScoreNonNegative == Returned => ScoreSign(result) >= 0

C4_Witness == Returned /\ ScoreSign(result) > 0

(***************************************************************************)
(* The lexicographic order on the 4-tuples, field by field                 *)
(***************************************************************************)
LexGreaterEq(t, u) ==
    \/ QuotLess(u.precision, t.precision)
    \/ /\ QuotEq(t.precision, u.precision)
       /\ LogLess(u.numerator, t.numerator)
    \/ /\ QuotEq(t.precision, u.precision)
       /\ t.numerator = u.numerator
       /\ t.denominator > u.denominator
    \/ /\ QuotEq(t.precision, u.precision)
       /\ t.numerator = u.numerator
       /\ t.denominator = u.denominator
       /\ t.ref_len >= u.ref_len

LexGreatest(list) ==
    CHOOSE t \in {list[r] : r \in DOMAIN list} :
        \A r \in DOMAIN list : LexGreaterEq(t, list[r])

\* the tuples of one item at one order, under the weights of the run
ItemScores(order, index) ==
    ScoresPerRef(hypotheses[index], list_of_references[index], order,
                 information_weights)

(***************************************************************************)
(* C5: at every (order, item) the values added to the accumulators are     *)
(* those of the lexicographically greatest tuple (precision, numerator,    *)
(* denominator, reference length) over the references of the item,         *)
(* whatever the position of that reference.                                *)
(***************************************************************************)
C5_AddsLexGreatest ==
    [][(pc = "accumulate" /\ err' = "none") =>
          LET best == LexGreatest(ItemScores(i, item))
          IN /\ selected' = best
             /\ nist_precision_numerator_per_ngram'[i] =
                    LogAdd(IF i \in DOMAIN nist_precision_numerator_per_ngram
                           THEN nist_precision_numerator_per_ngram[i]
                           ELSE LogZero, best.numerator)
             /\ nist_precision_denominator_per_ngram'[i] =
                    CounterGet(nist_precision_denominator_per_ngram, i)
                        + best.denominator
             /\ l_ref' = l_ref + best.ref_len]_vars

\* a tie on precision and numerator that the longer, later reference wins
C5_Witness ==
    /\ selected # None
    /\ Len(nist_score_per_ref) = 2
    /\ selected = nist_score_per_ref[2]
    /\ selected.denominator > 0
    /\ selected.numerator # LogZero
    /\ QuotEq(nist_score_per_ref[1].precision, selected.precision)
    /\ nist_score_per_ref[1].ref_len < selected.ref_len

(***************************************************************************)
(* C6: permuting the references inside the reference sets changes neither  *)
(* the tuple selected at any (order, item), nor the per-order sums, nor    *)
(* the length totals, nor what corpus_nist returns or raises; ties on      *)
(* precision included.                                                     *)
(***************************************************************************)
PermutationsOf(list) ==
    {[j \in DOMAIN list |-> list[p[j]]] : p \in Permutations(DOMAIN list)}

\* the corpora that differ from corpus only in the order inside reference sets
PermutedCorpora(corpus) ==
    {c \in [DOMAIN corpus -> UNION {PermutationsOf(corpus[k]) : k \in DOMAIN corpus}] :
        \A k \in DOMAIN corpus : c[k] \in PermutationsOf(corpus[k])}

C6_ReferenceOrderIrrelevant ==
    (~LengthMismatch /\ (Returned \/ Failed)) =>
        LET actual == corpus_nist(list_of_references, hypotheses, n)
        IN /\ actual.err = err
           /\ actual.result = result
           /\ pc # "accumulate" =>
                 /\ actual.numerator = nist_precision_numerator_per_ngram
                 /\ actual.denominator = nist_precision_denominator_per_ngram
                 /\ actual.l_ref = l_ref
                 /\ actual.l_sys = l_sys
           /\ \A c \in PermutedCorpora(list_of_references) :
                 corpus_nist(c, hypotheses, n) = actual

\* a score was returned where two references of different lengths tie on
\* precision, the shorter one first
C6_Witness ==
    /\ Returned
    /\ Len(nist_score_per_ref) = 2
    /\ QuotEq(nist_score_per_ref[1].precision, nist_score_per_ref[2].precision)
    /\ nist_score_per_ref[1].ref_len < nist_score_per_ref[2].ref_len
    /\ ScoreSign(result) > 0

(***************************************************************************)
(* C7: the length totals are accumulated once per (order, item): after     *)
(* the orders 1..n the hypothesis total is n times the sum of the          *)
(* hypothesis lengths, the reference total is the sum over all (order,     *)
(* item) of the length of the reference selected there, and the penalty    *)
(* is computed from these totals.                                          *)
(***************************************************************************)
RECURSIVE SelectedRefLens(_)
SelectedRefLens(pairs) ==
    IF pairs = {} THEN 0
    ELSE LET pair == CHOOSE x \in pairs : TRUE
         IN LexGreatest(ItemScores(pair[1], pair[2])).ref_len
            + SelectedRefLens(pairs \ {pair})

C7_LengthsPerOrderAndItem ==
    pc \in {"sum", "penalty", "done"} =>
        /\ l_sys = n * SumLens(hypotheses)
        /\ l_ref = SelectedRefLens((1..n) \X DOMAIN hypotheses)
        /\ Returned => penalty = nist_length_penalty(l_ref, l_sys)

C7_Witness ==
    /\ Returned
    /\ n >= 2
    /\ Len(list_of_references[1]) >= 2
    /\ l_ref = n * Len(hypotheses[1])
    /\ l_sys > 0

(***************************************************************************)
(* C8: nist_length_penalty(r, h) is exactly 1.0 whenever h >= r > 0 and    *)
(* exactly 0.0 whenever h <= 0 and r > 0; the smooth formula is used only  *)
(* when 0 < h / r < 1.                                                     *)
(***************************************************************************)
C8_PenaltyBoundaries ==
    Returned =>
        /\ (l_sys >= l_ref /\ l_ref > 0) => penalty = Float(<<1, 1>>)
        /\ (l_sys <= 0 /\ l_ref > 0) => penalty = Float(<<0, 1>>)
        /\ penalty.kind = "smooth" =>
              \/ l_ref > 0 /\ 0 < l_sys /\ l_sys < l_ref
              \/ l_ref < 0 /\ l_ref < l_sys /\ l_sys < 0

C8_Witness == Returned /\ l_ref > 0 /\ l_sys > l_ref /\ penalty = Float(<<1, 1>>)

(***************************************************************************)
(* C9: when the reference length total is 0 at the time the penalty is     *)
(* computed, the call raises and corpus_nist returns no score.             *)
(***************************************************************************)
C9_ZeroReferenceLengthRaises ==
    [][(pc = "penalty" /\ l_ref = 0) =>
          (pc' = "penalty" /\ err' = "ZeroDivisionError" /\ result' = None)]_vars

C9_Witness ==
    pc = "penalty" /\ err = "ZeroDivisionError" /\ l_ref = 0 /\ l_sys > 0

(***************************************************************************)
(* C10: once the table is built, the frequency of every n-gram of every    *)
(* order 1..n is the number of (reference, window position) pairs at       *)
(* which it occurs, over every reference of every reference set, repeated  *)
(* references included; for a single reference of length L the counts of   *)
(* order i sum to max(0, L - i + 1); an empty corpus gives an empty table. *)
(***************************************************************************)
\* <<item, reference, position>> of every token of every reference
ReferencePositions ==
    UNION {UNION {{<<k, r, j>> : j \in 1..Len(list_of_references[k][r])} :
                  r \in DOMAIN list_of_references[k]} :
           k \in DOMAIN list_of_references}

OccursAt(ngram, pos) ==
    LET reference == list_of_references[pos[1]][pos[2]]
    IN /\ pos[3] + Len(ngram) - 1 <= Len(reference)
       /\ \A d \in 1..Len(ngram) : reference[pos[3] + d - 1] = ngram[d]

Occurrences(ngram) ==
    Cardinality({pos \in ReferencePositions : OccursAt(ngram, pos)})

NgramsOfOrder(order) == [1..order -> Tokens]

RECURSIVE SumOver(_, _)
SumOver(c, keys) ==
    IF keys = {} THEN 0
    ELSE LET key == CHOOSE x \in keys : TRUE
         IN CounterGet(c, key) + SumOver(c, keys \ {key})

IntMax(a, b) == IF a > b THEN a ELSE b

TableBuilt == pc \in {"accumulate", "sum", "penalty", "done"}

C10_FrequencyTableCounts ==
    TableBuilt =>
        /\ DOMAIN ngram_freq \subseteq UNION {NgramsOfOrder(order) : order \in 1..n}
        /\ \A order \in 1..n : \A ngram \in NgramsOfOrder(order) :
              /\ CounterGet(ngram_freq, ngram) = Occurrences(ngram)
              /\ ngram \in DOMAIN ngram_freq => ngram_freq[ngram] >= 1
        /\ (Len(list_of_references) = 1 /\ Len(list_of_references[1]) = 1) =>
              \A order \in 1..n :
                  SumOver(ngram_freq, NgramsOfOrder(order))
                      = IntMax(0, Len(list_of_references[1][1]) - order + 1)
        /\ list_of_references = <<>> => ngram_freq = EmptyCounter

\* the same reference twice in one set, each of its n-grams counted twice
C10_Witness ==
    /\ TableBuilt
    /\ n >= 2
    /\ Len(list_of_references) >= 1
    /\ Len(list_of_references[1]) = 2
    /\ list_of_references[1][1] = list_of_references[1][2]
    /\ Len(list_of_references[1][1]) = 2
    /\ ngram_freq[list_of_references[1][1]] = 2

(***************************************************************************)
(* C11: for every distinct n-gram w of the frequency table the weight is   *)
(* log2 of a ratio of counts: for a unigram the number of words of all     *)
(* references of the corpus (repeats included) over count(w); for a        *)
(* higher order count(prefix(w)) over count(w), the prefix being w without *)
(* its last token.  The counts are those of the references alone, so no    *)
(* hypothesis enters a weight.                                             *)
(***************************************************************************)
WeightsBuilt == pc \in {"accumulate", "sum", "penalty", "done"}

C11_WeightsAreCountRatios ==
    WeightsBuilt =>
        /\ DOMAIN information_weights = DOMAIN ngram_freq
        /\ \A w \in DOMAIN ngram_freq :
              information_weights[w] =
                  IF Len(w) = 1
                  THEN LogNorm(<<Cardinality(ReferencePositions), Occurrences(w)>>)
                  ELSE LogNorm(<<Occurrences(Prefix(w)), Occurrences(w)>>)

\* a bigram rarer than its prefix, and a unigram rarer than the word total
C11_Witness ==
    /\ WeightsBuilt
    /\ \E w \in DOMAIN information_weights :
          /\ Len(w) = 2
          /\ information_weights[w] = <<2, 1>>
          /\ information_weights[Prefix(w)] = <<3, 2>>

(***************************************************************************)
(* C12: sentence_nist(references, hypothesis, n) returns exactly what      *)
(* corpus_nist([references], [hypothesis], n) returns, the order being 5   *)
(* on both sides when it is left out, and fails exactly when that call     *)
(* fails, with the same exception.                                         *)
(***************************************************************************)
SentenceCallEnded == pc # "sentence_nist" /\ (Returned \/ Failed)

C12_SentenceIsSingletonCorpus ==
    SentenceCallEnded =>
        LET args == sentence_nist_args
            direct == corpus_nist(<<args.references>>, <<args.hypothesis>>,
                                  IF "n" \in DOMAIN args THEN args.n
                                  ELSE corpus_nist_default_n)
        IN /\ direct.err = err
           /\ direct.result = result
           /\ Returned <=> direct.err = "none"

\* a positive score returned at the default order
C12_Witness ==
    /\ SentenceCallEnded
    /\ Returned
    /\ "n" \notin DOMAIN sentence_nist_args
    /\ n = 5
    /\ ScoreSign(result) > 0

(***************************************************************************)
(* C14: safeappend(key, item) appends item to the list at key and makes    *)
(* the list when there is none: after the call, for every key, also one    *)
(* with upper-case letters, key in fstruct holds and fstruct[key] is the   *)
(* list it was before the call (empty if there was none) with item added   *)
(* at its end.                                                             *)
(* The definition in force stores under the key as given, while the test   *)
(* and the item access look under the lower-cased key.                     *)
(***************************************************************************)
C14_SafeappendAppends ==
    [][safeappend_args' # None =>
          LET key == safeappend_args'.key
              before == IF FStructureContains(fstruct, key)
                        THEN FStructureGetItem(fstruct, key) ELSE <<>>
          IN /\ FStructureContains(fstruct', key)
             /\ FStructureGetItem(fstruct', key) = Append(before, safeappend_args'.item)]_vars

(***************************************************************************)
(* Reading a word in a grid                                                *)
(***************************************************************************)
\* the steps (row, column) of the four directions of check
Directions == {<<-1, -1>>, <<-1, 0>>, <<-1, 1>>, <<0, -1>>}

InGrid(g, c) == c[1] \in DOMAIN g /\ c[2] \in DOMAIN g[c[1]]

\* the letters of w lie on the line from start in direction d
ReadAt(g, w, start, d) ==
    \A k \in 1..Len(w) :
        LET c == <<start[1] + d[1] * (k - 1), start[2] + d[2] * (k - 1)>>
        IN InGrid(g, c) /\ g[c[1]][c[2]] = w[k]

GridCells(g) == UNION {{<<a, b>> : b \in DOMAIN g[a]} : a \in DOMAIN g}

Readable(g, w) ==
    \E start \in GridCells(g), d \in Directions :
        ReadAt(g, w, start, d) \/ ReadAt(g, Reverse(w), start, d)

\* after is before with w written on one line, over blanks or its own letters
WrittenOnLine(before, after, w) ==
    \E start \in GridCells(before), d \in Directions :
        LET line == {<<start[1] + d[1] * (k - 1), start[2] + d[2] * (k - 1)>> :
                         k \in 1..Len(w)}
        IN /\ ReadAt(after, w, start, d)
           /\ \A c \in line : before[c[1]][c[2]] \in {"", after[c[1]][c[2]]}
           /\ \A c \in GridCells(before) \ line : after[c[1]][c[2]] = before[c[1]][c[2]]

RECURSIVE IsSubsequence(_, _)
IsSubsequence(a, b) ==
    IF a = <<>> THEN TRUE
    ELSE IF b = <<>> THEN FALSE
    ELSE IF Head(a) = Head(b) THEN IsSubsequence(Tail(a), Tail(b))
    ELSE IsSubsequence(a, Tail(b))

(***************************************************************************)
(* C15: wordfinder returns (grid, used) with used holding exactly the      *)
(* words that were placed.  Every word of used can be read in the grid,    *)
(* forwards or reversed, on one straight line in one of the four           *)
(* directions, from the moment it is recorded on: also after the later     *)
(* words were placed and the blank cells filled.  A failed attempt         *)
(* records nothing and writes nothing; a word is recorded only in the      *)
(* attempt that writes it, which ends the attempts for that word, so a     *)
(* word none of whose attempts succeeded is not in used and every word is  *)
(* recorded at most once.                                                  *)
(***************************************************************************)
UsedWordsReadable ==
    wordfinder_pc \in {"word", "attempt", "done"} =>
        /\ \A k \in 1..Len(used) : Readable(grid, used[k])
        /\ IsSubsequence(used, [k \in 1..(word_index - 1) |-> Upper(Strip(words[k]))])

RecordedWhenPlaced ==
    /\ wordfinder_pc = "attempt" =>
          \/ used' = used /\ grid' = grid
          \/ /\ used' = Append(used, save)
             /\ WrittenOnLine(grid, grid', word)
             /\ word_index' = word_index + 1
             /\ wordfinder_pc' = "word"
    /\ wordfinder_pc \in {"word", "done"} => used' = used

C15_UsedWordsArePlaced == []UsedWordsReadable /\ [][RecordedWhenPlaced]_vars

\* returned: the first word placed, no attempt for the second succeeded
C15_Witness ==
    /\ wordfinder_pc = "done"
    /\ Len(words) = 2
    /\ attempts = 2
    /\ used = <<Upper(Strip(words[1]))>>
    /\ Len(used[1]) = 2
    /\ Len(Strip(words[2])) = 2
    /\ \A c \in GridCells(grid) : grid[c[1]][c[2]] # ""

(***************************************************************************)
(* C16: for every word and both settings of case_insensitive,              *)
(* segment(word) returns (stem, rest) with stem + rest equal to the        *)
(* lower-cased word; the empty word gives ("", "").                        *)
(* replace_back turns the marks % & $ and x* into letters also when they   *)
(* were in the word from the start.                                        *)
(***************************************************************************)
C16_StemPlusRestIsWord ==
    cistem_pc = "done" =>
        /\ segment_result[1] \o segment_result[2] = Lower(segment_arg)
        /\ segment_arg = <<>> => segment_result = <<<<>>, <<>>>>

(***************************************************************************)
(* C17: eval ignores punctuation.  A node of the parse whose word is None  *)
(* or has only punctuation characters is counted neither in total nor in   *)
(* corr nor in corrL, so another head or rel at such nodes leaves the      *)
(* returned pair as it is; LAS is the number of the remaining nodes with   *)
(* the head and the rel of the gold node over the number of the remaining  *)
(* nodes, UAS the number with the head of the gold node over it.           *)
(***************************************************************************)
OnlyPunctuation(w) ==
    \A k \in 1..Len(w.chars) : unicodedata_category(w.chars[k]) \in punc_cat

Ignored(node) == node.word = None \/ OnlyPunctuation(node.word)

\* the places (sentence, node) the loops have passed
PassedPlaces ==
    {place \in UNION {{<<s, k>> : k \in 1..Len(parsed_sents[s])} :
                      s \in 1..Len(parsed_sents)} :
        \/ place[1] < sent_index
        \/ eval_pc = "node" /\ place[1] = sent_index /\ place[2] < node_index}

Remaining == {place \in PassedPlaces : ~Ignored(parsed_sents[place[1]][place[2]])}

HeadRight(place) ==
    parsed_sents[place[1]][place[2]].head = gold_sents[place[1]][place[2]].head

RelRight(place) ==
    parsed_sents[place[1]][place[2]].rel = gold_sents[place[1]][place[2]].rel

\* the parses with another head or rel at the ignored nodes
NodeVariants(node) ==
    IF Ignored(node)
    THEN {[node EXCEPT !.head = arc[1], !.rel = arc[2]] : arc \in NodeArcs}
    ELSE {node}

RECURSIVE SentenceVariants(_)
SentenceVariants(nodes) ==
    IF nodes = <<>> THEN {<<>>}
    ELSE {<<node>> \o rest : node \in NodeVariants(Head(nodes)),
                             rest \in SentenceVariants(Tail(nodes))}

RECURSIVE ParseVariants(_)
ParseVariants(sents) ==
    IF sents = <<>> THEN {<<>>}
    ELSE {<<sent>> \o rest : sent \in SentenceVariants(Head(sents)),
                             rest \in ParseVariants(Tail(sents))}

C17_EvalIgnoresPunctuation ==
    /\ eval_pc \in {"sentence", "node", "done"} =>
          /\ eval_total = Cardinality(Remaining)
          /\ corr = Cardinality({place \in Remaining : HeadRight(place)})
          /\ corrL = Cardinality({place \in Remaining :
                                     HeadRight(place) /\ RelRight(place)})
    /\ eval_pc = "done" =>
          /\ eval_result =
                <<Rat(Cardinality({place \in Remaining :
                                      HeadRight(place) /\ RelRight(place)}),
                      Cardinality(Remaining)),
                  Rat(Cardinality({place \in Remaining : HeadRight(place)}),
                      Cardinality(Remaining))>>
          /\ \A variant \in ParseVariants(parsed_sents) :
                eval(variant, gold_sents) = eval_result

\* a parse with a comma under another head than in the gold graph and a word
\* with the head but not the rel of the gold graph: (0, 1) is returned
C17_Witness ==
    /\ eval_pc = "done"
    /\ eval_result = <<Rat(0, 1), Rat(1, 1)>>
    /\ \E place \in PassedPlaces :
          /\ parsed_sents[place[1]][place[2]].word = Str(<<",">>)
          /\ ~HeadRight(place)

(***************************************************************************)
(* C18: for each (order, item, reference) the numerator is the sum, over   *)
(* the n-grams of the order that occur in both the hypothesis and the      *)
(* reference, of the weight of the n-gram times the smaller of its count   *)
(* in the hypothesis and its count in the reference.                       *)
(***************************************************************************)
\* the number of places of the sentence where the n-gram starts
CountIn(sentence, ngram) ==
    Cardinality({k \in 1..(Len(sentence) - Len(ngram) + 1) :
                    \A d \in 1..Len(ngram) : sentence[k + d - 1] = ngram[d]})

Shared(hypothesis, reference, order) ==
    {ngram \in NgramsOfOrder(order) :
        CountIn(hypothesis, ngram) > 0 /\ CountIn(reference, ngram) > 0}

RECURSIVE ClippedSum(_, _, _)
ClippedSum(hypothesis, reference, ngramset) ==
    IF ngramset = {} THEN LogZero
    ELSE LET ngram == CHOOSE x \in ngramset : TRUE
         IN LogAdd(LogScale(information_weights[ngram],
                            IntMin(CountIn(hypothesis, ngram),
                                   CountIn(reference, ngram))),
                   ClippedSum(hypothesis, reference, ngramset \ {ngram}))

C18_NumeratorIsClippedSum ==
    [][(pc = "accumulate" /\ err' = "none") =>
          \A r \in DOMAIN list_of_references[item] :
             nist_score_per_ref'[r].numerator =
                ClippedSum(hypotheses[item], list_of_references[item][r],
                           Shared(hypotheses[item], list_of_references[item][r], i))]_vars

\* a unigram twice in the hypothesis and once in the reference, with a weight
\* that is not 0, credited once: the numerator is the weight
C18_Witness ==
    /\ pc \in {"accumulate", "sum", "penalty", "done"}
    /\ err = "none"
    /\ selected # None
    /\ LET last_item == IF item = 1 THEN Len(hypotheses) ELSE item - 1
           last_order == IF item = 1 THEN i - 1 ELSE i
       IN \E r \in DOMAIN list_of_references[last_item] :
          \E ngram \in NgramsOfOrder(last_order) :
             /\ CountIn(hypotheses[last_item], ngram) = 2
             /\ CountIn(list_of_references[last_item][r], ngram) = 1
             /\ Shared(hypotheses[last_item], list_of_references[last_item][r],
                       last_order) = {ngram}
             /\ information_weights[ngram] # LogZero
             /\ nist_score_per_ref[r].numerator = information_weights[ngram]

(***************************************************************************)
(* C19: the value returned by corpus_nist is the sum over the orders 1..n  *)
(* of summed numerator / summed denominator, times nist_length_penalty of  *)
(* the summed reference lengths and the summed hypothesis lengths; the sum *)
(* of the per-order precisions is not divided by n.                        *)
(***************************************************************************)
\* the greatest tuple of every item at an order, summed field by field
RECURSIVE SummedNumerator(_, _)
SummedNumerator(order, index) ==
    IF index = 0 THEN LogZero
    ELSE LogAdd(SummedNumerator(order, index - 1),
                LexGreatest(ItemScores(order, index)).numerator)

RECURSIVE SummedDenominator(_, _)
SummedDenominator(order, index) ==
    IF index = 0 THEN 0
    ELSE SummedDenominator(order, index - 1)
            + LexGreatest(ItemScores(order, index)).denominator

RECURSIVE SummedRefLen(_, _)
SummedRefLen(order, index) ==
    IF order = 0 THEN 0
    ELSE IF index = 0 THEN SummedRefLen(order - 1, Len(hypotheses))
    ELSE SummedRefLen(order, index - 1)
            + LexGreatest(ItemScores(order, index)).ref_len

C19_ScoreIsPrecisionSumTimesPenalty ==
    pc = "done" =>
        /\ result.kind = "product"
        /\ result.precision =
              [order \in 1..n |->
                  Quot(SummedNumerator(order, Len(hypotheses)),
                       SummedDenominator(order, Len(hypotheses)))]
        /\ result.penalty =
              nist_length_penalty(SummedRefLen(n, Len(hypotheses)),
                                  n * SumLens(hypotheses))

\* two orders with a precision above 0 each and a hypothesis shorter than
\* the reference
C19_Witness ==
    /\ pc = "done"
    /\ n = 2
    /\ result.precision[1].num # LogZero
    /\ result.precision[2].num # LogZero
    /\ l_sys < l_ref

(***************************************************************************)
(* C20: within one call the accumulation steps come in strictly ascending  *)
(* (order, item) order: every item at order i before any item at order     *)
(* i + 1, the items of an order in corpus order; each pair (i, item) with  *)
(* 1 <= i <= n is accumulated exactly once; no accumulation step comes     *)
(* before the frequency table and the weight table are complete, and no    *)
(* accumulation step changes either table.                                 *)
(***************************************************************************)
TablesComplete ==
    /\ DOMAIN ngram_freq =
          {ngram \in UNION {NgramsOfOrder(order) : order \in 1..n} :
              Occurrences(ngram) > 0}
    /\ \A ngram \in DOMAIN ngram_freq : ngram_freq[ngram] = Occurrences(ngram)
    /\ information_weights = InformationWeights(ngram_freq, total_reference_words)

\* the pair after (order, index) in the order of the loops
PairAfter(order, index) ==
    IF index < Len(hypotheses) THEN <<order, index + 1>> ELSE <<order + 1, 1>>

Accumulated ==
    /\ nist_precision_numerator_per_ngram' # nist_precision_numerator_per_ngram
          \/ nist_precision_denominator_per_ngram' # nist_precision_denominator_per_ngram
          \/ l_ref' # l_ref
          \/ l_sys' # l_sys
    /\ pc # "count"

C20_AccumulationInLoopOrder ==
    [][/\ (pc # "accumulate" /\ pc' = "accumulate") =>
             /\ <<i', item'>> = <<1, 1>>
             /\ TablesComplete'
       /\ (pc = "accumulate" /\ err' = "none") =>
             /\ i \in 1..n
             /\ item \in 1..Len(hypotheses)
             /\ <<i', item'>> = PairAfter(i, item)
             /\ pc' = IF i' <= n THEN "accumulate" ELSE "sum"
             /\ TablesComplete
             /\ ngram_freq' = ngram_freq
             /\ information_weights' = information_weights
       /\ Accumulated => pc = "accumulate"]_vars

\* the second item at the second order, reached after the three pairs before it
C20_Witness ==
    /\ pc = "accumulate"
    /\ err = "none"
    /\ n = 2
    /\ Len(hypotheses) = 2
    /\ <<i, item>> = <<2, 2>>
    /\ nist_precision_denominator_per_ngram[1] >= 2
    /\ nist_precision_denominator_per_ngram[2] >= 1

(***************************************************************************)
(* C21: for every n-gram w of an order from 2 to n in the frequency table  *)
(* the prefix of w is in the table too and                                 *)
(* count(prefix(w)) >= count(w) >= 1; for every unigram u the number of    *)
(* reference words is >= count(u).  So the word total is the numerator of  *)
(* a weight only at order 1, and the argument of every log2 is >= 1.       *)
(***************************************************************************)
C21_PrefixCountsDominate ==
    WeightsBuilt =>
        \A w \in DOMAIN ngram_freq :
            /\ Len(w) \in 1..n
            /\ ngram_freq[w] >= 1
            /\ Len(w) >= 2 =>
                  /\ Prefix(w) \in DOMAIN ngram_freq
                  /\ ngram_freq[Prefix(w)] >= ngram_freq[w]
                  /\ information_weights[w] =
                        LogNorm(<<ngram_freq[Prefix(w)], ngram_freq[w]>>)
            /\ Len(w) = 1 =>
                  /\ Prefix(w) \notin DOMAIN ngram_freq
                  /\ total_reference_words >= ngram_freq[w]
            /\ information_weights[w][1] >= information_weights[w][2]
            /\ information_weights[w][2] >= 1

\* a bigram as frequent as its prefix (the argument is 1) beside a bigram
\* rarer than its prefix, in a table whose unigrams are rarer than the total
C21_Witness ==
    /\ WeightsBuilt
    /\ n = 2
    /\ \E w \in DOMAIN ngram_freq, v \in DOMAIN ngram_freq :
          /\ Len(w) = 2
          /\ Len(v) = 2
          /\ ngram_freq[Prefix(w)] = ngram_freq[w]
          /\ ngram_freq[Prefix(v)] > ngram_freq[v]
          /\ total_reference_words > ngram_freq[Prefix(v)]

(***************************************************************************)
(* C22: during accumulation every n-gram of the clipped overlap of a       *)
(* hypothesis and a reference of the corpus, at every order from 1 to n,   *)
(* has an entry in information_weights: the lookup of a weight never       *)
(* raises KeyError, whatever tokens the hypothesis holds.                  *)
(***************************************************************************)
C22_OverlapHasWeights ==
    /\ err # "KeyError"
    /\ pc = "accumulate" =>
          \A order \in 1..n : \A index \in 1..Len(hypotheses) :
          \A r \in DOMAIN list_of_references[index] :
             /\ ~MissingWeight(hypotheses[index], list_of_references[index][r],
                               order, information_weights)
             /\ Shared(hypotheses[index], list_of_references[index][r], order)
                   \subseteq DOMAIN information_weights

\* a hypothesis with a token that no reference has and a bigram that a
\* reference has, accumulated at both orders without an exception
C22_Witness ==
    /\ pc \in {"sum", "penalty", "done"}
    /\ err = "none"
    /\ n = 2
    /\ Len(hypotheses) = 1
    /\ \E t \in Tokens :
          /\ \E k \in DOMAIN hypotheses[1] : hypotheses[1][k] = t
          /\ <<t>> \notin DOMAIN ngram_freq
    /\ \E r \in DOMAIN list_of_references[1] :
          Shared(hypotheses[1], list_of_references[1][r], 2) # {}

(***************************************************************************)
(* C24: for every word, direction, random offset and start position,      *)
(* every grid cell an attempt reads or writes has a row index in           *)
(* 0..rows-1 and a column index in 0..cols-1: no attempt uses a negative   *)
(* index, which would wrap to the other side of the grid, or an index past *)
(* the end.  On the blank grid an attempt reads and writes every cell of   *)
(* its path, so there the written cells show the indices it used.          *)
(***************************************************************************)
\* dir as the pair of steps of the lambdas of check
DirectionOf(dir) ==
    IF dir = 1 THEN <<-1, -1>>
    ELSE IF dir = 2 THEN <<-1, 0>>
    ELSE IF dir = 3 THEN <<-1, 1>>
    ELSE <<0, -1>>

\* the cells of the straight line of w from start, no index wrapped
LineCells(w, start, d) ==
    {<<start[1] + d[1] * (k - 1), start[2] + d[2] * (k - 1)>> : k \in 1..Len(w)}

\* the blank grid with w on the line, where the line lies inside the grid
LineGrid(w, start, d, nrows, ncols) ==
    [a \in 0..(nrows - 1) |-> [b \in 0..(ncols - 1) |->
        IF \E k \in 1..Len(w) :
               <<a, b>> = <<start[1] + d[1] * (k - 1), start[2] + d[2] * (k - 1)>>
        THEN w[CHOOSE k \in 1..Len(w) :
                   <<a, b>> = <<start[1] + d[1] * (k - 1), start[2] + d[2] * (k - 1)>>]
        ELSE ""]]

IndicesInRange ==
    wordfinder_pc = "attempt" =>
        \A r \in 0..Len(word), dir \in 1..4, x \in 0..rows, y \in 0..cols :
            LET start == Moved(dir, x, y, r)
                probe == TryPlace(word, r, dir, x, y, BlankGrid(rows, cols),
                                  rows, cols)
            IN /\ probe.err = "none"
               /\ probe.ok =>
                     /\ \A c \in LineCells(word, start, DirectionOf(dir)) :
                           c[1] \in 0..(rows - 1) /\ c[2] \in 0..(cols - 1)
                     /\ probe.grid = LineGrid(word, start, DirectionOf(dir),
                                              rows, cols)
               /\ ~probe.ok => probe.grid = BlankGrid(rows, cols)

C24_IndicesInRange ==
    /\ IndicesInRange
    /\ wordfinder_pc \in {"start", "word", "attempt", "done"}

\* a word of two letters placed upwards to the right with its last letter
\* in the last column
C24_Witness ==
    /\ wordfinder_pc = "word"
    /\ Len(used) = 1
    /\ Len(used[1]) = 2
    /\ grid[2][1] # ""
    /\ grid[1][2] # ""

(***************************************************************************)
(* C23: a placement attempt is all-or-nothing and never overwrites.  If a  *)
(* cell on the path of the word holds a letter other than the letter of    *)
(* the word at that place, step returns False and every cell of the grid   *)
(* is as before; otherwise it writes the whole word and nothing else.  So  *)
(* a cell that holds a letter keeps it over every sequence of placements.  *)
(***************************************************************************)
Conflict(g, w, start, d) ==
    \E k \in 1..Len(w) :
        g[start[1] + d[1] * (k - 1)][start[2] + d[2] * (k - 1)] \notin {"", w[k]}

StepAllOrNothing ==
    wordfinder_pc = "attempt" =>
        \A start \in GridCells(grid), d \in Directions :
            LineCells(word, start, d) \subseteq GridCells(grid) =>
                LET placed == step(word, start[1], d[1], start[2], d[2], grid)
                IN /\ placed.err = "none"
                   /\ Conflict(grid, word, start, d) =>
                         ~placed.ok /\ placed.grid = grid
                   /\ ~Conflict(grid, word, start, d) =>
                         /\ placed.ok
                         /\ ReadAt(placed.grid, word, start, d)
                         /\ \A c \in GridCells(grid) \ LineCells(word, start, d) :
                               placed.grid[c[1]][c[2]] = grid[c[1]][c[2]]

LettersStay ==
    /\ wordfinder_pc = "attempt" =>
          grid' = grid \/ WrittenOnLine(grid, grid', word)
    /\ wordfinder_pc \in {"word", "attempt"} =>
          \A c \in GridCells(grid) :
              grid[c[1]][c[2]] # "" => grid'[c[1]][c[2]] = grid[c[1]][c[2]]

C23_PlacementAllOrNothing == []StepAllOrNothing /\ [][LettersStay]_vars

\* a second word after a failed attempt, with a path inside the grid whose
\* first cell is free and whose second cell holds another letter
C23_Witness ==
    /\ wordfinder_pc = "attempt"
    /\ attempt = 1
    /\ Len(used) = 1
    /\ Len(word) = 2
    /\ \E start \in GridCells(grid), d \in Directions :
          /\ LineCells(word, start, d) \subseteq GridCells(grid)
          /\ grid[start[1]][start[2]] = ""
          /\ grid[start[1] + d[1]][start[2] + d[2]] \notin {"", word[2]}
          /\ step(word, start[1], d[1], start[2], d[2], grid)
                = StepResult(FALSE, grid, "none")

====
